---- MODULE Spec2Model ----
(***************************************************************************)
(* Layer wrappers of neural_nets/wrappers.py (WrapperBase, Dropout) over a *)
(* base layer.  The base layer class lives in layers.py; it is modelled as *)
(* a FullyConnected layer with n_in = n_out = 1 and the identity           *)
(* activation, following sections 3, 4.1 and 4.2 of the specification.     *)
(*                                                                         *)
(* Objects are identified by numbers: 0 is the base layer, w >= 1 is the   *)
(* w-th wrapper constructed.  A Python object is a record whose fields are *)
(* its instance attributes, so DOMAIN of the record is the set of          *)
(* attributes the object has.                                              *)
(***************************************************************************)
EXTENDS Integers, Sequences, FiniteSets, TLC

VARIABLES layer, wrappers, last

vars == <<layer, wrappers, last>>

\* ------------------------------------------------------------- bounds
MaxWrappers == 2
MaxVal == 1
NEx == 2

\* ------------------------------------------------------------- values
Ix == 1..NEx
\* a tensor has NEx elements; the empty tuple stands for an empty cache
NoTensor == <<>>
ParamVals == 0..MaxVal
ParamKeys == {"W", "b"}
LRs == {1}

NoCalls == <<>>

RECURSIVE SumTo(_, _)
SumTo(f, n) == IF n = 0 THEN 0 ELSE f[n] + SumTo(f, n - 1)

\* --------------------------------------------------- base layer (layers.py)
Layer_init(W0, b0) ==
    [trainable |-> TRUE,
     parameters |-> [W |-> W0, b |-> b0],
     gradients |-> [W |-> 0, b |-> 0],
     hyperparameters |-> [layer |-> "FullyConnected", act_fn |-> "Identity"],
     derived_variables |-> [Z |-> NoTensor],
     n_in |-> 1,
     n_out |-> 1,
     act_fn |-> "Identity",
     X |-> NoTensor]

\* Z = X.W + b ; Y = act_fn(Z) with the identity activation
Layer_Z(l, X) == [i \in Ix |-> X[i] * l.parameters.W + l.parameters.b]

Layer_forward(l, X) ==
    [l EXCEPT !.X = X, !.derived_variables = [Z |-> Layer_Z(l, X)]]

Layer_forward_ret(l, X) == Layer_Z(l, X)

\* faulty variant: backward keeps the gradients of the parameters only
GradientKeys_Params == {"W", "b"}

\* the keys of gradients after forward and backward, as test_FullyConnected
\* reads them: dLdy under Y, dLdZ under Z, dLdW under W and dLdB under b
GradientKeys == {"Y", "Z", "W", "b"}

\* dLdZ = dLdY ; dLdW = X^T.dLdZ ; dLdb = column-sum(dLdZ) ; dLdX = dLdZ.W^T
Layer_backward(l, dLdy) ==
    [l EXCEPT !.gradients =
        [k \in GradientKeys |->
            CASE k = "W" -> SumTo([i \in Ix |-> l.X[i] * dLdy[i]], NEx)
              [] k = "b" -> SumTo(dLdy, NEx)
              [] OTHER -> dLdy]]

Layer_backward_ret(l, dLdy) == [i \in Ix |-> dLdy[i] * l.parameters.W]

Layer_freeze(l) == [l EXCEPT !.trainable = FALSE]

Layer_unfreeze(l) == [l EXCEPT !.trainable = TRUE]

Layer_flush_gradients(l) ==
    [l EXCEPT !.gradients = [k \in ParamKeys |-> 0],
              !.X = NoTensor,
              !.derived_variables = [Z |-> NoTensor]]

\* plain gradient descent, then the implicit flush
Layer_update(l, lr) ==
    Layer_flush_gradients(
        [l EXCEPT !.parameters =
            [k \in ParamKeys |-> l.parameters[k] - lr * l.gradients[k]]])

Layer_set_params(l, sd) ==
    [l EXCEPT !.parameters = sd.parameters,
              !.hyperparameters = sd.hyperparameters]

\* one call of a base-layer method, c = [m |-> method name, a |-> argument]
Layer_call(l, c) ==
    CASE c.m = "freeze" -> Layer_freeze(l)
      [] c.m = "unfreeze" -> Layer_unfreeze(l)
      [] c.m = "flush_gradients" -> Layer_flush_gradients(l)
      [] c.m = "update" -> Layer_update(l, c.a)
      [] c.m = "forward" -> Layer_forward(l, c.a)
      [] c.m = "backward" -> Layer_backward(l, c.a)
      [] c.m = "set_params" -> Layer_set_params(l, c.a)

\* the base-layer calls of a method body, made in order
RECURSIVE Layer_run(_, _)
Layer_run(l, calls) ==
    IF calls = <<>> THEN l
    ELSE Layer_run(Layer_call(l, Head(calls)), Tail(calls))

\* ------------------------------------------------------------- objects
Obj(o) == IF o = 0 THEN layer ELSE wrappers[o]

hasattr(o, name) == name \in DOMAIN Obj(o)

\* attribute `name` of object o, where a wrapper answers with its property
\* (wrappers.py 25-59), that is with the same attribute of its _base_layer
RECURSIVE getattr(_, _)
getattr(o, name) ==
    IF o = 0 THEN layer[name] ELSE getattr(wrappers[o]._base_layer, name)

\* ------------------------------------------------- WrapperBase (wrappers.py)
\* faulty variant: the object handed in is kept, wrapper or not
WrapperBase_init_Outer(wrapped_layer) == wrapped_layer

\* WrapperBase.__init__: the value of self._base_layer
WrapperBase_init(wrapped_layer) ==
    IF hasattr(wrapped_layer, "_base_layer")
    THEN Obj(wrapped_layer)._base_layer
    ELSE wrapped_layer

WrapperBase_trainable(w) == getattr(wrappers[w]._base_layer, "trainable")
WrapperBase_parameters(w) == getattr(wrappers[w]._base_layer, "parameters")
WrapperBase_hyperparameters(w) == getattr(wrappers[w]._base_layer, "hyperparameters")
\* faulty variant: the gradients property answers with the parameters
WrapperBase_gradients_Params(w) == getattr(wrappers[w]._base_layer, "parameters")
WrapperBase_gradients(w) == getattr(wrappers[w]._base_layer, "gradients")
WrapperBase_derived_variables(w) == getattr(wrappers[w]._base_layer, "derived_variables")
WrapperBase_n_in(w) == getattr(wrappers[w]._base_layer, "n_in")
WrapperBase_n_out(w) == getattr(wrappers[w]._base_layer, "n_out")
WrapperBase_act_fn(w) == getattr(wrappers[w]._base_layer, "act_fn")
WrapperBase_X(w) == getattr(wrappers[w]._base_layer, "X")

\* an element of hyperparameters["wrappers"] is the dict object of a wrapper:
\* [ref |-> w] is the very object self._wrapper_hyperparameters of wrapper w
Deref(e) == wrappers[e.ref]._wrapper_hyperparameters

DerefAll(list) == [i \in DOMAIN list |-> Deref(list[i])]

\* a hyperparameters dict by value, as Python's == on dicts compares it
HpValue(hp) ==
    IF "wrappers" \in DOMAIN hp
    THEN [k \in DOMAIN hp |-> IF k = "wrappers" THEN DerefAll(hp[k]) ELSE hp[k]]
    ELSE hp

\* faulty variant: the list is replaced instead of appended to
WrapperBase_init_params_Overwrite(l, hp) ==
    [l EXCEPT !.hyperparameters =
        [k \in DOMAIN @ \cup {"wrappers"} |->
            IF k = "wrappers" THEN <<hp>> ELSE @[k]]]

\* WrapperBase._init_params on the base layer l, hp the wrapper's dict
WrapperBase_init_params(l, hp) ==
    IF "wrappers" \in DOMAIN l.hyperparameters
    THEN [l EXCEPT !.hyperparameters =
             [k \in DOMAIN @ |-> IF k = "wrappers" THEN Append(@[k], hp) ELSE @[k]]]
    ELSE [l EXCEPT !.hyperparameters =
             [k \in DOMAIN @ \cup {"wrappers"} |->
                 IF k = "wrappers" THEN <<hp>> ELSE @[k]]]

\* faulty variant: the assertion is missing
AssertTrainable_Off(w) == TRUE

\* `assert self.trainable, "Layer is frozen"`
AssertTrainable(w) == WrapperBase_trainable(w)

\* the calls each method makes on self._base_layer, in order
WrapperBase_freeze_body == <<[m |-> "freeze", a |-> 0]>>
WrapperBase_unfreeze_body == <<[m |-> "freeze", a |-> 0]>>
\* faulty variants: flush_gradients does not reach the layer; update only flushes
WrapperBase_flush_gradients_body_Empty == <<>>
WrapperBase_update_body_NoUpdate(lr) == <<[m |-> "flush_gradients", a |-> 0]>>

WrapperBase_flush_gradients_body == <<[m |-> "flush_gradients", a |-> 0]>>
WrapperBase_update_body(lr) ==
    <<[m |-> "update", a |-> lr], [m |-> "flush_gradients", a |-> 0]>>
WrapperBase_set_params_body(summary_dict) ==
    <<[m |-> "set_params", a |-> summary_dict]>>

CountOf(names, m) == Cardinality({i \in DOMAIN names : names[i] = m})

Methods(calls) == [i \in DOMAIN calls |-> calls[i].m]

\* WrapperBase._set_wrapper_params: the new self._wrapper_hyperparameters
WrapperBase_set_wrapper_params(hp, pdict) ==
    [k \in DOMAIN hp |-> IF k \in DOMAIN pdict THEN pdict[k] ELSE hp[k]]

\* faulty variant: summary lists the wrapper's own descriptor only
WrapperBase_summary_Own(w) ==
    [layer |-> WrapperBase_hyperparameters(w).layer,
     layer_wrappers |-> <<wrappers[w]._wrapper_hyperparameters.wrapper>>,
     parameters |-> WrapperBase_parameters(w),
     hyperparameters |-> WrapperBase_hyperparameters(w)]

\* faulty variant: summary reports the gradients as the parameters
WrapperBase_summary_Grads(w) ==
    [layer |-> WrapperBase_hyperparameters(w).layer,
     layer_wrappers |->
        [i \in DOMAIN WrapperBase_hyperparameters(w).wrappers |->
            Deref(WrapperBase_hyperparameters(w).wrappers[i]).wrapper],
     parameters |-> WrapperBase_gradients(w),
     hyperparameters |-> WrapperBase_hyperparameters(w)]

WrapperBase_summary(w) ==
    [layer |-> WrapperBase_hyperparameters(w).layer,
     layer_wrappers |->
        [i \in DOMAIN WrapperBase_hyperparameters(w).wrappers |->
            Deref(WrapperBase_hyperparameters(w).wrappers[i]).wrapper],
     parameters |-> WrapperBase_parameters(w),
     hyperparameters |-> WrapperBase_hyperparameters(w)]

SummaryValue(sd) == [sd EXCEPT !.hyperparameters = HpValue(@)]

\* ------------------------------------------------------------- Dropout
Dropout_init_wrapper_params(p) == [wrapper |-> "Dropout", p |-> p]

\* np.random.rand(*X.shape) >= self.p
Dropout_mask(rand, p) == [i \in Ix |-> rand[i] >= p]

\* faulty variant: the kept entries are scaled by 1/(1-p), at p = 0.5
Dropout_apply_Rescaled(mask, X) == [i \in Ix |-> IF mask[i] THEN 2 * X[i] ELSE 0]

\* dropout_mask * X
Dropout_apply(mask, X) == [i \in Ix |-> IF mask[i] THEN X[i] ELSE 0]

\* the local X of Dropout.forward after lines 112-114
Dropout_masked(w, X, rand) ==
    IF WrapperBase_trainable(w)
    THEN Dropout_apply(Dropout_mask(rand, wrappers[w].p), X)
    ELSE X

\* ------------------------------------------------------------- the record
\* of the call made last: what was called, on which object (0 the layer
\* itself), how it ended, whether the layer was trainable and held a nonzero
\* gradient when it was made, the base-layer methods it invoked, its argument,
\* the masked input, the tensor handed to the layer, the value returned,
\* whether set_params was given summary(), and whether a flush follows a flush
Rec(op, via, outcome, wasTrainable, calls, arg, masked, handed, ret, rt) ==
    [op |-> op, via |-> via, outcome |-> outcome, wasTrainable |-> wasTrainable,
     calls |-> calls, arg |-> arg, masked |-> masked, handed |-> handed,
     ret |-> ret, rt |-> rt,
     dirty |-> (\E k \in ParamKeys : layer.gradients[k] # 0),
     again |-> (op = "flush_gradients" /\ outcome = "ok" /\ last.op = op
                /\ last.via = via /\ last.outcome = "ok")]

InRange(l) == \A k \in ParamKeys : l.parameters[k] \in ParamVals

Init ==
    /\ \E W0 \in 0..MaxVal, b0 \in 0..MaxVal : layer = Layer_init(W0, b0)
    /\ wrappers = <<>>
    /\ last = [op |-> "init", via |-> 0, outcome |-> "ok", wasTrainable |-> TRUE,
               calls |-> NoCalls, arg |-> NoTensor, masked |-> NoTensor,
               handed |-> NoTensor, ret |-> NoTensor, rt |-> FALSE, dirty |-> FALSE,
               again |-> FALSE]

WIds == 1..Len(wrappers)

\* Dropout(wrapped_layer, p)
Dropout_init(wrapped_layer, p) ==
    /\ Len(wrappers) < MaxWrappers
    /\ LET w == Len(wrappers) + 1
       IN /\ wrappers' = Append(wrappers,
                 [_base_layer |-> WrapperBase_init(wrapped_layer),
                  p |-> p,
                  _wrapper_hyperparameters |-> Dropout_init_wrapper_params(p)])
          /\ layer' = WrapperBase_init_params(layer, [ref |-> w])
          /\ last' = Rec("attach", w, "ok", layer.trainable, NoCalls,
                         NoTensor, NoTensor, NoTensor, NoTensor, FALSE)

\* faulty variant: the mask is applied in place (X *= dropout_mask), so the
\* caller's tensor is the masked one after the call
Dropout_forward_InPlace(w, X, rand) ==
    LET Xm == Dropout_masked(w, X, rand)
    IN /\ last' = Rec("forward", w, "AttributeError", WrapperBase_trainable(w),
                      NoCalls, Xm, Xm, NoTensor, NoTensor, FALSE)
       /\ UNCHANGED <<layer, wrappers>>

\* Dropout.forward(X)
Dropout_forward(w, X, rand) ==
    LET Xm == Dropout_masked(w, X, rand)
    IN IF hasattr(w, "_wrapped_layer")
       THEN \* self._wrapped_layer.forward(X), the attribute being the layer
            /\ wrappers[w]._wrapped_layer = 0
            /\ layer' = Layer_forward(layer, Xm)
            /\ last' = Rec("forward", w, "ok", WrapperBase_trainable(w),
                           <<"forward">>, X, Xm, Xm,
                           Layer_forward_ret(layer, Xm), FALSE)
            /\ UNCHANGED wrappers
       ELSE /\ last' = Rec("forward", w, "AttributeError", WrapperBase_trainable(w),
                           NoCalls, X, Xm, NoTensor, NoTensor, FALSE)
            /\ UNCHANGED <<layer, wrappers>>

\* faulty variant: backward hands dLdy back without consulting the layer
Dropout_backward_Through(w, dLdy) ==
    /\ last' = Rec("backward", w, "ok", WrapperBase_trainable(w), NoCalls,
                   dLdy, NoTensor, NoTensor, dLdy, FALSE)
    /\ UNCHANGED <<layer, wrappers>>

\* Dropout.backward(dLdy)
Dropout_backward(w, dLdy) ==
    IF ~AssertTrainable(w)
    THEN /\ last' = Rec("backward", w, "AssertionError", WrapperBase_trainable(w),
                        NoCalls, NoTensor, NoTensor, NoTensor, NoTensor, FALSE)
         /\ UNCHANGED <<layer, wrappers>>
    ELSE IF hasattr(w, "_wrapped_layer")
    THEN /\ wrappers[w]._wrapped_layer = 0
         /\ layer.X # NoTensor
         /\ layer' = Layer_backward(layer, dLdy)
         /\ last' = Rec("backward", w, "ok", WrapperBase_trainable(w),
                        <<"backward">>, dLdy, NoTensor, dLdy,
                        Layer_backward_ret(layer, dLdy), FALSE)
         /\ UNCHANGED wrappers
    ELSE /\ last' = Rec("backward", w, "AttributeError", WrapperBase_trainable(w),
                        NoCalls, NoTensor, NoTensor, NoTensor, NoTensor, FALSE)
         /\ UNCHANGED <<layer, wrappers>>

\* a WrapperBase method that only calls methods of the base layer
Delegate(op, w, calls) ==
    /\ InRange(Layer_run(layer, calls))
    /\ layer' = Layer_run(layer, calls)
    /\ last' = Rec(op, w, "ok", WrapperBase_trainable(w), Methods(calls),
                   NoTensor, NoTensor, NoTensor, NoTensor, FALSE)
    /\ UNCHANGED wrappers

\* faulty variant: the assertion comes after the flush of the gradients
Frozen_Late(op, w) ==
    /\ layer' = Layer_run(layer, WrapperBase_flush_gradients_body)
    /\ last' = Rec(op, w, "AssertionError", WrapperBase_trainable(w), NoCalls,
                   NoTensor, NoTensor, NoTensor, NoTensor, FALSE)
    /\ UNCHANGED wrappers

\* the assertion of lines 75 and 79 fails
Frozen(op, w) ==
    /\ last' = Rec(op, w, "AssertionError", WrapperBase_trainable(w), NoCalls,
                   NoTensor, NoTensor, NoTensor, NoTensor, FALSE)
    /\ UNCHANGED <<layer, wrappers>>

WrapperBase_freeze(w) == Delegate("freeze", w, WrapperBase_freeze_body)

WrapperBase_unfreeze(w) == Delegate("unfreeze", w, WrapperBase_unfreeze_body)

WrapperBase_flush_gradients(w) ==
    IF ~AssertTrainable(w)
    THEN Frozen("flush_gradients", w)
    ELSE Delegate("flush_gradients", w, WrapperBase_flush_gradients_body)

WrapperBase_update(w, lr) ==
    IF ~AssertTrainable(w)
    THEN Frozen("update", w)
    ELSE Delegate("update", w, WrapperBase_update_body(lr))

\* w._set_wrapper_params(pdict)
Set_wrapper_params(w, pdict) ==
    /\ wrappers' = [wrappers EXCEPT ![w]._wrapper_hyperparameters =
                        WrapperBase_set_wrapper_params(@, pdict)]
    /\ last' = Rec("_set_wrapper_params", w, "ok", WrapperBase_trainable(w),
                   NoCalls, NoTensor, NoTensor, NoTensor, NoTensor, FALSE)
    /\ UNCHANGED layer

\* the summary dicts handed to set_params: what summary() returns now, and
\* the same with the parameters of a fresh checkpoint (all zero)
Checkpoints(w) ==
    {[WrapperBase_summary(w) EXCEPT !.parameters = P] :
        P \in {WrapperBase_parameters(w), [k \in ParamKeys |-> 0]}}

WrapperBase_set_params(w, summary_dict) ==
    /\ layer' = Layer_run(layer, WrapperBase_set_params_body(summary_dict))
    /\ last' = Rec("set_params", w, "ok", WrapperBase_trainable(w),
                   <<"set_params">>, NoTensor, NoTensor, NoTensor, NoTensor,
                   SummaryValue(summary_dict) = SummaryValue(WrapperBase_summary(w)))
    /\ UNCHANGED wrappers

\* ------------------------------------------- calls on the layer itself
Direct(op, outcome, l, arg, ret) ==
    /\ InRange(l)
    /\ layer' = l
    /\ last' = Rec(op, 0, outcome, layer.trainable, NoCalls, arg, NoTensor,
                   NoTensor, ret, FALSE)
    /\ UNCHANGED wrappers

L_forward(X) ==
    Direct("forward", "ok", Layer_forward(layer, X), X, Layer_forward_ret(layer, X))

L_backward(dLdy) ==
    IF ~layer.trainable
    THEN Direct("backward", "AssertionError", layer, NoTensor, NoTensor)
    ELSE IF layer.X = NoTensor
    THEN Direct("backward", "NoForwardError", layer, NoTensor, NoTensor)
    ELSE Direct("backward", "ok", Layer_backward(layer, dLdy), dLdy,
                Layer_backward_ret(layer, dLdy))

L_freeze == Direct("freeze", "ok", Layer_freeze(layer), NoTensor, NoTensor)

L_unfreeze == Direct("unfreeze", "ok", Layer_unfreeze(layer), NoTensor, NoTensor)

L_flush_gradients ==
    IF ~layer.trainable
    THEN Direct("flush_gradients", "AssertionError", layer, NoTensor, NoTensor)
    ELSE Direct("flush_gradients", "ok", Layer_flush_gradients(layer),
                NoTensor, NoTensor)

L_update(lr) ==
    IF ~layer.trainable
    THEN Direct("update", "AssertionError", layer, NoTensor, NoTensor)
    ELSE Direct("update", "ok", Layer_update(layer, lr), NoTensor, NoTensor)

PDicts == {[p |-> 50], [q |-> 0]}

\* the inputs of Spec: one input tensor, two output gradients, two drop
\* probabilities and the draws of np.random.rand on either side of them
\* (probabilities and draws in percent, the draws from [0, 1))
Ones == [i \in Ix |-> 1]
Unit == [i \in Ix |-> IF i = 1 THEN 1 ELSE 0]
DIn == {Ones, Unit}
PIn == {0, 50}
XIn == {Ones}
RIn == [Ix -> {0, 99}]

Next ==
    \/ \E o \in {0} \cup WIds, p \in PIn : Dropout_init(o, p)
    \/ \E w \in WIds, X \in XIn, rand \in RIn : Dropout_forward(w, X, rand)
    \/ \E w \in WIds, dLdy \in DIn : Dropout_backward(w, dLdy)
    \/ \E w \in WIds : WrapperBase_freeze(w)
    \/ \E w \in WIds : WrapperBase_unfreeze(w)
    \/ \E w \in WIds : WrapperBase_flush_gradients(w)
    \/ \E w \in WIds, lr \in LRs : WrapperBase_update(w, lr)
    \/ \E w \in WIds, pdict \in PDicts : Set_wrapper_params(w, pdict)
    \/ \E w \in WIds : \E sd \in Checkpoints(w) : WrapperBase_set_params(w, sd)
    \/ \E X \in XIn : L_forward(X)
    \/ \E dLdy \in DIn : L_backward(dLdy)
    \/ L_freeze
    \/ L_unfreeze
    \/ L_flush_gradients
    \/ \E lr \in LRs : L_update(lr)

Spec == Init /\ [][Next]_vars

\* ------------------------------------------------------------- claims
ViaWrapper(r) == r.via # 0

\* hyperparameters["wrappers"] of the layer l, empty when the key is absent
WList(l) ==
    IF "wrappers" \in DOMAIN l.hyperparameters THEN l.hyperparameters.wrappers
    ELSE <<>>

ZeroGradients(l) == \A k \in ParamKeys : l.gradients[k] = 0

\* C1: Dropout.forward on a trainable layer completes, calls the layer's
\* forward exactly once, on the masked tensor, and returns the layer's output.
C1_ForwardTrainableDelegates ==
    (last.op = "forward" /\ ViaWrapper(last) /\ last.wasTrainable)
        => /\ last.outcome = "ok"
           /\ CountOf(last.calls, "forward") = 1
           /\ last.handed = last.masked
           /\ last.ret = Layer_forward_ret(layer, last.masked)

\* C2: unfreeze() through a wrapper leaves the layer trainable.
C2_UnfreezeMakesTrainable ==
    (last.op = "unfreeze" /\ ViaWrapper(last) /\ last.outcome = "ok")
        => WrapperBase_trainable(last.via)

\* C3: backward, update and flush_gradients through a wrapper of a frozen
\* layer end in the frozen-layer assertion error and reach no layer method.
C3_FrozenCallsFail ==
    (ViaWrapper(last) /\ last.op \in {"backward", "update", "flush_gradients"}
        /\ ~last.wasTrainable)
        => (last.outcome = "AssertionError" /\ last.calls = NoCalls)

C3_Witness ==
    /\ ViaWrapper(last) /\ last.op = "backward" /\ ~last.wasTrainable
    /\ last.outcome = "AssertionError" /\ layer.X # NoTensor

\* C4: update through a wrapper of a trainable layer calls the layer's update
\* exactly once and leaves every gradient zero.
C4_UpdateOnceThenZero ==
    (last.op = "update" /\ ViaWrapper(last) /\ last.wasTrainable)
        => /\ last.outcome = "ok"
           /\ CountOf(last.calls, "update") = 1
           /\ ZeroGradients(layer)
           /\ \A k \in ParamKeys : WrapperBase_gradients(last.via)[k] = 0

C4_Witness ==
    /\ last.op = "update" /\ ViaWrapper(last) /\ last.wasTrainable
    /\ last.dirty /\ last.outcome = "ok" /\ ZeroGradients(layer)

\* C5: Dropout.backward on a trainable layer with a cached forward pass hands
\* dLdy on unchanged and returns what the layer's backward returns.
C5_BackwardDelegates ==
    (last.op = "backward" /\ ViaWrapper(last) /\ last.wasTrainable
        /\ layer.X # NoTensor)
        => /\ last.outcome = "ok"
           /\ last.handed = last.arg
           /\ last.ret = Layer_backward_ret(layer, last.arg)

\* C6: Dropout.forward on a frozen layer still runs and hands X itself to the
\* layer's forward.
C6_FrozenForwardHandsX ==
    (last.op = "forward" /\ ViaWrapper(last) /\ ~last.wasTrainable)
        => /\ last.outcome = "ok"
           /\ CountOf(last.calls, "forward") = 1
           /\ last.handed = last.arg

\* C7: every state accessor of every wrapper returns the base layer's current
\* value, and no wrapper holds an attribute of its own under these names.
Accessors ==
    {"trainable", "parameters", "hyperparameters", "gradients",
     "derived_variables", "n_in", "n_out", "act_fn", "X"}

C7_AccessorsProxy ==
    \A w \in WIds :
        /\ WrapperBase_trainable(w) = layer.trainable
        /\ WrapperBase_parameters(w) = layer.parameters
        /\ WrapperBase_hyperparameters(w) = layer.hyperparameters
        /\ WrapperBase_gradients(w) = layer.gradients
        /\ WrapperBase_derived_variables(w) = layer.derived_variables
        /\ WrapperBase_n_in(w) = layer.n_in
        /\ WrapperBase_n_out(w) = layer.n_out
        /\ WrapperBase_act_fn(w) = layer.act_fn
        /\ WrapperBase_X(w) = layer.X
        /\ DOMAIN wrappers[w] \cap Accessors = {}

C7_Witness ==
    /\ Len(wrappers) = MaxWrappers
    /\ ~layer.trainable
    /\ layer.X # NoTensor
    /\ layer.gradients # layer.parameters
    /\ ~ZeroGradients(layer)

\* C8: a flush_gradients that completes, the second of two in a row included,
\* leaves every gradient zero and changes no parameter.
C8_FlushIdempotent ==
    [][(last'.op = "flush_gradients" /\ last'.outcome = "ok")
        => /\ ZeroGradients(layer')
           /\ layer'.parameters = layer.parameters
           /\ (last'.again => ZeroGradients(layer))]_vars

C8_Witness ==
    /\ last.op = "flush_gradients" /\ ViaWrapper(last) /\ last.again
    /\ ZeroGradients(layer)

\* C9: attaching a Dropout appends the one descriptor {wrapper: Dropout, p: p}
\* to hyperparameters["wrappers"], keeps what was there in order and changes
\* no other hyperparameter; forward, backward, freeze, unfreeze,
\* flush_gradients and update through a wrapper keep the list's length.
C9_Attached ==
    /\ "wrappers" \in DOMAIN layer'.hyperparameters
    /\ Len(WList(layer')) = Len(WList(layer)) + 1
    /\ (wrappers'[WList(layer')[Len(WList(layer'))].ref])._wrapper_hyperparameters
           = [wrapper |-> "Dropout", p |-> wrappers'[last'.via].p]
    /\ \A i \in DOMAIN WList(layer) : WList(layer')[i] = WList(layer)[i]
    /\ DOMAIN layer'.hyperparameters = DOMAIN layer.hyperparameters \cup {"wrappers"}
    /\ \A k \in DOMAIN layer.hyperparameters \ {"wrappers"} :
           layer'.hyperparameters[k] = layer.hyperparameters[k]

C9_AttachAppendsOnce ==
    [][/\ (last'.op = "attach" /\ wrappers' # wrappers) => C9_Attached
       /\ (ViaWrapper(last')
             /\ last'.op \in {"forward", "backward", "freeze", "unfreeze",
                              "flush_gradients", "update"})
            => Len(WList(layer')) = Len(WList(layer))]_vars

C9_Witness ==
    /\ last.op = "attach" /\ Len(WList(layer)) = MaxWrappers
    /\ Deref(WList(layer)[1]).p # wrappers[last.via].p

\* C10: set_params(summary()) changes neither the parameters nor the
\* hyperparameters, and summary() afterwards equals summary() before.
C10_SetParamsInvertsSummary ==
    [][\A w \in WIds :
        (last'.op = "set_params" /\ last'.via = w /\ last'.rt)
            => /\ layer'.parameters = layer.parameters
               /\ HpValue(layer.hyperparameters)' = HpValue(layer.hyperparameters)
               /\ SummaryValue(WrapperBase_summary(w))'
                      = SummaryValue(WrapperBase_summary(w))]_vars

C10_Witness ==
    /\ last.op = "set_params" /\ last.rt /\ ViaWrapper(last)
    /\ Len(WList(layer)) = MaxWrappers
    /\ ~ZeroGradients(layer)

\* C11: summary() of a wrapper has exactly the keys layer, layer_wrappers,
\* parameters and hyperparameters; layer_wrappers holds one name per attached
\* wrapper, the i-th being the 'wrapper' name of the i-th wrapper attached;
\* parameters and hyperparameters are the base layer's.
C11_SummaryShape ==
    \A w \in WIds :
        /\ DOMAIN WrapperBase_summary(w)
               = {"layer", "layer_wrappers", "parameters", "hyperparameters"}
        /\ DOMAIN WrapperBase_summary(w).layer_wrappers = WIds
        /\ \A i \in WIds :
               WrapperBase_summary(w).layer_wrappers[i]
                   = wrappers[i]._wrapper_hyperparameters.wrapper
        /\ WrapperBase_summary(w).parameters = layer.parameters
        /\ WrapperBase_summary(w).hyperparameters = layer.hyperparameters

C11_Witness ==
    /\ Len(wrappers) = MaxWrappers
    /\ last.op = "_set_wrapper_params"
    /\ WrapperBase_summary(1).layer_wrappers = [i \in WIds |-> "Dropout"]
    /\ WrapperBase_summary(MaxWrappers).parameters # layer.gradients

MaxT == 3

\* integer stand-ins of the activations: tanh is the identity between -2 and
\* 2 and saturates outside; sigmoid is the unit step
tanh(z) == IF z > 2 THEN 2 ELSE IF z < -2 THEN -2 ELSE z

tanh_grad(z) == IF z > -2 /\ z < 2 THEN 1 ELSE 0

sigmoid(z) == IF z >= 0 THEN 1 ELSE 0

sigmoid_grad(z) == 0

\* the last element of a per-step cache, zero while the cache is empty
Prev(cache) == IF cache = <<>> THEN 0 ELSE cache[Len(cache)]

\* the element before step t of a per-step cache, zero before the first step
Before(cache, t) == IF t = 1 THEN 0 ELSE cache[t - 1]

RECURSIVE SumOver(_, _, _)
SumOver(f, lo, hi) == IF lo > hi THEN 0 ELSE f[lo] + SumOver(f, lo + 1, hi)

\* ------------------------------------------------------ RNNCell (layers.py)
RNNCell_init(Wax, Waa, bx, ba) ==
    [trainable |-> TRUE,
     parameters |-> [Wax |-> Wax, Waa |-> Waa, bx |-> bx, ba |-> ba],
     gradients |-> [Wax |-> 0, Waa |-> 0, bx |-> 0, ba |-> 0],
     hyperparameters |-> [layer |-> "RNNCell", act_fn |-> "Tanh"],
     derived_variables |->
        [A |-> <<>>, Z |-> <<>>, current_step |-> 0, dLdA_accumulator |-> 0],
     n_in |-> 1,
     n_out |-> 1,
     X |-> <<>>]

\* Z_t = Wax.x_t + Waa.a_{t-1} + bx + ba, a_{t-1} the cell's previous output
RNNCell_Z(l, Xt) ==
    l.parameters.Wax * Xt + l.parameters.Waa * Prev(l.derived_variables.A)
        + l.parameters.bx + l.parameters.ba

RNNCell_forward_ret(l, Xt) == tanh(RNNCell_Z(l, Xt))

RNNCell_forward(l, Xt) ==
    [l EXCEPT !.X = Append(@, Xt),
              !.derived_variables =
                  [@ EXCEPT !.A = Append(@, RNNCell_forward_ret(l, Xt)),
                            !.Z = Append(@, RNNCell_Z(l, Xt)),
                            !.current_step = Len(l.X) + 1]]

\* dLdZ at the step backward is about to consume
RNNCell_dZ(l, dLdAt) ==
    tanh_grad(l.derived_variables.Z[l.derived_variables.current_step])
        * (dLdAt + l.derived_variables.dLdA_accumulator)

RNNCell_backward_ret(l, dLdAt) == RNNCell_dZ(l, dLdAt) * l.parameters.Wax

RNNCell_backward(l, dLdAt) ==
    LET t == l.derived_variables.current_step
        dZ == RNNCell_dZ(l, dLdAt)
    IN [l EXCEPT !.gradients =
                    [Wax |-> @.Wax + l.X[t] * dZ,
                     Waa |-> @.Waa + Before(l.derived_variables.A, t) * dZ,
                     bx |-> @.bx + dZ,
                     ba |-> @.ba + dZ],
                 !.derived_variables =
                    [@ EXCEPT !.current_step = t - 1,
                              !.dLdA_accumulator = dZ * l.parameters.Waa]]

RNNCell_flush_gradients(l) ==
    [l EXCEPT !.gradients = [k \in DOMAIN @ |-> 0],
              !.X = <<>>,
              !.derived_variables =
                  [A |-> <<>>, Z |-> <<>>, current_step |-> 0,
                   dLdA_accumulator |-> 0]]

\* ------------------------------------------- TorchRNNCell (torch_models.py)
\* the transposes of 1x1 weights and biases are the weights and biases
TorchRNNCell_init(params) ==
    [weight_ih |-> params.Wax, weight_hh |-> params.Waa,
     bias_ih |-> params.bx, bias_hh |-> params.ba]

\* nn.RNNCell with the tanh nonlinearity: the pre-activation and h'
nn_RNNCell_Z(m, x, h) == m.weight_ih * x + m.bias_ih + m.weight_hh * h + m.bias_hh

nn_RNNCell(m, x, h) == tanh(nn_RNNCell_Z(m, x, h))

\* faulty variant: every step starts from a0
RECURSIVE TorchRNNCell_loop_Unthreaded(_, _, _)
TorchRNNCell_loop_Unthreaded(m, X, A) ==
    IF Len(A) = Len(X) THEN A
    ELSE TorchRNNCell_loop_Unthreaded(m, X,
             Append(A, nn_RNNCell(m, X[Len(A) + 1], 0)))

\* the loop of TorchRNNCell.forward: A holds the outputs of the steps done
\* (a0 left out), `at` is its last element, a0 = 0 before the first step
RECURSIVE TorchRNNCell_loop(_, _, _)
TorchRNNCell_loop(m, X, A) ==
    IF Len(A) = Len(X) THEN A
    ELSE TorchRNNCell_loop(m, X,
             Append(A, nn_RNNCell(m, X[Len(A) + 1], Prev(A))))

TorchRNNCell_forward(m, X) == TorchRNNCell_loop(m, X, <<>>)

\* loss = sum over A ; loss.backward(): the gradients of the loss with respect
\* to the pre-activations, dZ holding those of the steps after Len(X) - Len(dZ)
RECURSIVE TorchRNNCell_dZ(_, _, _, _)
TorchRNNCell_dZ(m, X, A, dZ) ==
    IF Len(dZ) = Len(X) THEN dZ
    ELSE TorchRNNCell_dZ(m, X, A,
             <<tanh_grad(nn_RNNCell_Z(m, X[Len(X) - Len(dZ)],
                                      Before(A, Len(X) - Len(dZ))))
                 * (1 + IF dZ = <<>> THEN 0 ELSE dZ[1] * m.weight_hh)>> \o dZ)

\* the gradients of steps from..Len(X) only; extract_grads is from = 1
TorchRNNCell_grads(m, X, from) ==
    LET A == TorchRNNCell_forward(m, X)
        dZ == TorchRNNCell_dZ(m, X, A, <<>>)
    IN [dLdWax |-> SumOver([t \in DOMAIN X |-> dZ[t] * X[t]], from, Len(X)),
        dLdWaa |-> SumOver([t \in DOMAIN X |-> dZ[t] * Before(A, t)], from, Len(X)),
        dLdBx |-> SumOver(dZ, from, Len(X)),
        dLdBa |-> SumOver(dZ, from, Len(X)),
        dLdX |-> [t \in DOMAIN X |-> dZ[t] * m.weight_ih]]

TorchRNNCell_extract_grads(m, X) ==
    [k \in {"y"} \cup DOMAIN TorchRNNCell_grads(m, X, 1) |->
        IF k = "y" THEN TorchRNNCell_forward(m, X)
        ELSE TorchRNNCell_grads(m, X, 1)[k]]

\* ----------------------------------------------------- LSTMCell (layers.py)
\* a gate weight W is the pair <<hidden part, input part>>: row 1 acts on
\* a_{t-1} and row 2 on x_t of the concatenation [a_{t-1}; x_t]
Gates == {"u", "f", "c", "o"}
WKey == [u |-> "Wu", f |-> "Wf", c |-> "Wc", o |-> "Wo"]
BKey == [u |-> "bu", f |-> "bf", c |-> "bc", o |-> "bo"]

LSTMCell_init(Wu, Wf, Wc, Wo, b) ==
    [trainable |-> TRUE,
     parameters |-> [Wu |-> Wu, Wf |-> Wf, Wc |-> Wc, Wo |-> Wo,
                     bu |-> b, bf |-> b, bc |-> b, bo |-> b],
     gradients |-> [Wu |-> <<0, 0>>, Wf |-> <<0, 0>>, Wc |-> <<0, 0>>,
                    Wo |-> <<0, 0>>, bu |-> 0, bf |-> 0, bc |-> 0, bo |-> 0],
     hyperparameters |-> [layer |-> "LSTMCell", act_fn |-> "Tanh",
                          gate_fn |-> "Sigmoid"],
     derived_variables |->
        [A |-> <<>>, C |-> <<>>, Z |-> <<>>, current_step |-> 0,
         dLdA_accumulator |-> 0, dLdC_accumulator |-> 0],
     n_in |-> 1,
     n_out |-> 1,
     X |-> <<>>]

\* the four pre-activations W_g . [a_{t-1}; x_t] + b_g
LSTMCell_Z(l, Xt) ==
    [g \in Gates |->
        l.parameters[WKey[g]][1] * Prev(l.derived_variables.A)
            + l.parameters[WKey[g]][2] * Xt + l.parameters[BKey[g]]]

\* C_t = Gf.C_{t-1} + Gu.Cc
LSTMCell_C(Z, Cprev) == sigmoid(Z.f) * Cprev + sigmoid(Z.u) * tanh(Z.c)

\* a_t = Go.tanh(C_t)
LSTMCell_A(Z, Cprev) == sigmoid(Z.o) * tanh(LSTMCell_C(Z, Cprev))

\* forward returns (a_t, C_t)
LSTMCell_forward_ret(l, Xt) ==
    <<LSTMCell_A(LSTMCell_Z(l, Xt), Prev(l.derived_variables.C)),
      LSTMCell_C(LSTMCell_Z(l, Xt), Prev(l.derived_variables.C))>>

LSTMCell_forward(l, Xt) ==
    [l EXCEPT !.X = Append(@, Xt),
              !.derived_variables =
                  [@ EXCEPT !.A = Append(@, LSTMCell_forward_ret(l, Xt)[1]),
                            !.C = Append(@, LSTMCell_forward_ret(l, Xt)[2]),
                            !.Z = Append(@, LSTMCell_Z(l, Xt)),
                            !.current_step = Len(l.X) + 1]]

\* the gradients at the step backward is about to consume: of the loss with
\* respect to C_t and to the four pre-activations
LSTMCell_dC(l, dLdAt) ==
    LET t == l.derived_variables.current_step
    IN l.derived_variables.dLdC_accumulator
         + (dLdAt + l.derived_variables.dLdA_accumulator)
             * sigmoid(l.derived_variables.Z[t].o)
             * tanh_grad(l.derived_variables.C[t])

LSTMCell_dZ(l, dLdAt) ==
    LET t == l.derived_variables.current_step
        Z == l.derived_variables.Z[t]
        dC == LSTMCell_dC(l, dLdAt)
    IN [g \in Gates |->
          CASE g = "o" -> (dLdAt + l.derived_variables.dLdA_accumulator)
                             * tanh(l.derived_variables.C[t]) * sigmoid_grad(Z.o)
            [] g = "c" -> dC * sigmoid(Z.u) * tanh_grad(Z.c)
            [] g = "u" -> dC * tanh(Z.c) * sigmoid_grad(Z.u)
            [] g = "f" -> dC * Before(l.derived_variables.C, t) * sigmoid_grad(Z.f)]

\* row j of dZ.W^T summed over the gates: j = 1 is dLdA_{t-1}, j = 2 is dLdX_t
LSTMCell_dIn(l, dLdAt, j) ==
    LSTMCell_dZ(l, dLdAt).u * l.parameters.Wu[j]
        + LSTMCell_dZ(l, dLdAt).f * l.parameters.Wf[j]
        + LSTMCell_dZ(l, dLdAt).c * l.parameters.Wc[j]
        + LSTMCell_dZ(l, dLdAt).o * l.parameters.Wo[j]

LSTMCell_backward_ret(l, dLdAt) == LSTMCell_dIn(l, dLdAt, 2)

LSTMCell_backward(l, dLdAt) ==
    LET t == l.derived_variables.current_step
        dZ == LSTMCell_dZ(l, dLdAt)
        GOf(k) == CHOOSE g \in Gates : WKey[g] = k \/ BKey[g] = k
    IN [l EXCEPT !.gradients =
                    [k \in DOMAIN @ |->
                        IF k \in {WKey[g] : g \in Gates}
                        THEN <<@[k][1] + Before(l.derived_variables.A, t) * dZ[GOf(k)],
                               @[k][2] + l.X[t] * dZ[GOf(k)]>>
                        ELSE @[k] + dZ[GOf(k)]],
                 !.derived_variables =
                    [@ EXCEPT !.current_step = t - 1,
                              !.dLdA_accumulator = LSTMCell_dIn(l, dLdAt, 1),
                              !.dLdC_accumulator =
                                  sigmoid(l.derived_variables.Z[t].f)
                                      * LSTMCell_dC(l, dLdAt)]]

LSTMCell_flush_gradients(l) ==
    [l EXCEPT !.gradients =
                  [k \in DOMAIN @ |->
                      IF k \in {WKey[g] : g \in Gates} THEN <<0, 0>> ELSE 0],
              !.X = <<>>,
              !.derived_variables =
                  [A |-> <<>>, C |-> <<>>, Z |-> <<>>, current_step |-> 0,
                   dLdA_accumulator |-> 0, dLdC_accumulator |-> 0]]

\* ------------------------------------------ TorchLSTMCell (torch_models.py)
\* np.vstack of four 1x1 blocks is the 4-tuple of them; nn.LSTMCell reads the
\* chunks in the order input, forget, cell, output gate
TorchLSTMCell_init(params) ==
    [weight_ih |-> <<params.Wu[2], params.Wf[2], params.Wc[2], params.Wo[2]>>,
     weight_hh |-> <<params.Wu[1], params.Wf[1], params.Wc[1], params.Wo[1]>>,
     bias_ih |-> <<params.bu, params.bf, params.bc, params.bo>>,
     bias_hh |-> <<params.bu, params.bf, params.bc, params.bo>>]

\* nn.LSTMCell: the pre-activation of chunk g, and (h', c')
nn_LSTMCell_Z(m, x, hc, g) ==
    m.weight_ih[g] * x + m.bias_ih[g] + m.weight_hh[g] * hc[1] + m.bias_hh[g]

nn_LSTMCell(m, x, hc) ==
    LET c1 == sigmoid(nn_LSTMCell_Z(m, x, hc, 2)) * hc[2]
                + sigmoid(nn_LSTMCell_Z(m, x, hc, 1)) * tanh(nn_LSTMCell_Z(m, x, hc, 3))
    IN <<sigmoid(nn_LSTMCell_Z(m, x, hc, 4)) * tanh(c1), c1>>

\* the loop of TorchLSTMCell.forward: AC holds the pairs (at, ct) of the steps
\* done, (a0, c0) = (0, 0) left out
RECURSIVE TorchLSTMCell_loop(_, _, _)
TorchLSTMCell_loop(m, X, AC) ==
    IF Len(AC) = Len(X) THEN AC
    ELSE TorchLSTMCell_loop(m, X,
             Append(AC, nn_LSTMCell(m, X[Len(AC) + 1],
                                    IF AC = <<>> THEN <<0, 0>> ELSE AC[Len(AC)])))

\* forward returns (self.A, self.C)
TorchLSTMCell_forward(m, X) ==
    LET AC == TorchLSTMCell_loop(m, X, <<>>)
    IN <<[t \in DOMAIN X |-> AC[t][1]], [t \in DOMAIN X |-> AC[t][2]]>>

\* (h, c) entering step t
TorchLSTMCell_in(AC, t) == IF t = 1 THEN <<0, 0>> ELSE AC[t - 1]

\* loss = sum over A ; loss.backward(): the gradients of the loss with
\* respect to c_t (dC) and to the four pre-activations (dZ), `done` holding
\* those of the steps after Len(X) - Len(done)
RECURSIVE TorchLSTMCell_back(_, _, _, _)
TorchLSTMCell_back(m, X, AC, done) ==
    IF Len(done) = Len(X) THEN done
    ELSE LET t == Len(X) - Len(done)
             hc == TorchLSTMCell_in(AC, t)
             Z == [g \in 1..4 |-> nn_LSTMCell_Z(m, X[t], hc, g)]
             dA == 1 + IF done = <<>> THEN 0
                       ELSE SumOver([g \in 1..4 |-> done[1].dZ[g] * m.weight_hh[g]],
                                    1, 4)
             dC == dA * sigmoid(Z[4]) * tanh_grad(AC[t][2])
                     + IF done = <<>> THEN 0
                       ELSE done[1].dC
                              * sigmoid(nn_LSTMCell_Z(m, X[t + 1], AC[t], 2))
         IN TorchLSTMCell_back(m, X, AC,
                <<[dC |-> dC,
                   dZ |-> <<dC * tanh(Z[3]) * sigmoid_grad(Z[1]),
                            dC * hc[2] * sigmoid_grad(Z[2]),
                            dC * sigmoid(Z[1]) * tanh_grad(Z[3]),
                            dA * tanh(AC[t][2]) * sigmoid_grad(Z[4])>>]>> \o done)

\* the .grad of weight_ih, weight_hh and bias_ih from steps from..Len(X), and
\* that of X
TorchLSTMCell_grad(m, X, from) ==
    LET AC == TorchLSTMCell_loop(m, X, <<>>)
        B == TorchLSTMCell_back(m, X, AC, <<>>)
    IN [weight_ih |->
           [g \in 1..4 |->
               SumOver([t \in DOMAIN X |-> B[t].dZ[g] * X[t]], from, Len(X))],
        weight_hh |->
           [g \in 1..4 |->
               SumOver([t \in DOMAIN X |-> B[t].dZ[g] * TorchLSTMCell_in(AC, t)[1]],
                       from, Len(X))],
        bias_ih |->
           [g \in 1..4 |->
               SumOver([t \in DOMAIN X |-> B[t].dZ[g]], from, Len(X))],
        X |-> [t \in DOMAIN X |->
                  SumOver([g \in 1..4 |-> B[t].dZ[g] * m.weight_ih[g]], 1, 4)]]

\* extract_grads packs each gate's gradient as cat([hidden part, input part])
TorchLSTMCell_grads(m, X, from) ==
    LET G == TorchLSTMCell_grad(m, X, from)
    IN [dLdWu |-> <<G.weight_hh[1], G.weight_ih[1]>>,
        dLdWf |-> <<G.weight_hh[2], G.weight_ih[2]>>,
        dLdWc |-> <<G.weight_hh[3], G.weight_ih[3]>>,
        dLdWo |-> <<G.weight_hh[4], G.weight_ih[4]>>,
        dLdBu |-> G.bias_ih[1],
        dLdBf |-> G.bias_ih[2],
        dLdBc |-> G.bias_ih[3],
        dLdBo |-> G.bias_ih[4],
        dLdX |-> G.X]

TorchLSTMCell_extract_grads(m, X) ==
    [k \in {"y", "C"} \cup DOMAIN TorchLSTMCell_grads(m, X, 1) |->
        CASE k = "y" -> TorchLSTMCell_forward(m, X)[1]
          [] k = "C" -> TorchLSTMCell_forward(m, X)[2]
          [] OTHER -> TorchLSTMCell_grads(m, X, 1)[k]]

\* ------------------------------------- test_RNNCell, test_LSTMCell (tests.py)
IsRNN(l) == l.hyperparameters.layer = "RNNCell"

\* faulty variant: the gradient of a step is put behind those of later steps
list_insert0_Append(list, e) == Append(list, e)

\* dLdX.insert(0, dLdXt)
list_insert0(list, e) == <<e>> \o list

\* np.ones_like(y_preds[t]) for one example and one output
dLdAt == 1

\* the cells and the input sequences X[:, :, 1..n_t] of the tests
WIn == {-1, 0, 1}
RNNCells ==
    {RNNCell_init(Wax, Waa, bx, 0) : Wax \in {-1, 1}, Waa \in WIn, bx \in {0, 1}}
LSTMCells ==
    {LSTMCell_init(Wu, Wf, Wc, <<0, 0>>, 0) :
        Wu \in {<<0, 0>>, <<0, 1>>}, Wf \in {<<0, 0>>, <<1, 0>>},
        Wc \in {<<1, 1>>, <<-1, 1>>, <<1, 2>>}}
XSeqs == UNION {[1..n_t -> WIn] : n_t \in 1..MaxT}

\* the record of the test after the call `op`: `step` is the time step the
\* call worked on, `flushed` whether a flush_gradients emptied a filled cache
\* before this sequence began
TestRec(op, outcome, X, y_preds, Cs, dLdX, step, ret, flushed) ==
    [op |-> op, outcome |-> outcome, X |-> X, y_preds |-> y_preds, Cs |-> Cs,
     dLdX |-> dLdX, step |-> step, ret |-> ret, flushed |-> flushed]

InitRecurrent ==
    /\ layer \in RNNCells \cup LSTMCells
    /\ wrappers = <<>>
    /\ \E X \in XSeqs :
          last = TestRec("init", "ok", X, <<>>, <<>>, <<>>, 0, 0, FALSE)

\* y_pred = L1.forward(X[:, :, t]) ; y_preds += [y_pred]
test_RNNCell_forward ==
    /\ IsRNN(layer)
    /\ Len(last.y_preds) < Len(last.X) /\ last.dLdX = <<>>
    /\ LET t == Len(last.y_preds) + 1
       IN /\ layer' = RNNCell_forward(layer, last.X[t])
          /\ last' = TestRec("forward", "ok", last.X,
                             Append(last.y_preds,
                                    RNNCell_forward_ret(layer, last.X[t])),
                             <<>>, <<>>, t,
                             RNNCell_forward_ret(layer, last.X[t]), last.flushed)
    /\ UNCHANGED wrappers

\* dLdXt = L1.backward(dLdAt) ; dLdX.insert(0, dLdXt)
test_RNNCell_backward ==
    /\ IsRNN(layer)
    /\ Len(last.y_preds) = Len(last.X) /\ Len(last.dLdX) < Len(last.X)
    /\ layer' = RNNCell_backward(layer, dLdAt)
    /\ last' = TestRec("backward", "ok", last.X, last.y_preds, <<>>,
                       list_insert0(last.dLdX, RNNCell_backward_ret(layer, dLdAt)),
                       layer.derived_variables.current_step,
                       RNNCell_backward_ret(layer, dLdAt), last.flushed)
    /\ UNCHANGED wrappers

\* y_pred, Ct = L1.forward(X[:, :, t]) ; y_preds.append(y_pred) ; Cs.append(Ct)
test_LSTMCell_forward ==
    /\ ~IsRNN(layer)
    /\ Len(last.y_preds) < Len(last.X) /\ last.dLdX = <<>>
    /\ LET t == Len(last.y_preds) + 1
       IN /\ layer' = LSTMCell_forward(layer, last.X[t])
          /\ last' = TestRec("forward", "ok", last.X,
                             Append(last.y_preds,
                                    LSTMCell_forward_ret(layer, last.X[t])[1]),
                             Append(last.Cs,
                                    LSTMCell_forward_ret(layer, last.X[t])[2]),
                             <<>>, t,
                             LSTMCell_forward_ret(layer, last.X[t]), last.flushed)
    /\ UNCHANGED wrappers

test_LSTMCell_backward ==
    /\ ~IsRNN(layer)
    /\ Len(last.y_preds) = Len(last.X) /\ Len(last.dLdX) < Len(last.X)
    /\ layer' = LSTMCell_backward(layer, dLdAt)
    /\ last' = TestRec("backward", "ok", last.X, last.y_preds, last.Cs,
                       list_insert0(last.dLdX, LSTMCell_backward_ret(layer, dLdAt)),
                       layer.derived_variables.current_step,
                       LSTMCell_backward_ret(layer, dLdAt), last.flushed)
    /\ UNCHANGED wrappers

\* model.flush_gradients() between two runs over the same X, as
\* grad_check_RNN calls it
Cell_flush_gradients ==
    /\ layer' = IF IsRNN(layer) THEN RNNCell_flush_gradients(layer)
                ELSE LSTMCell_flush_gradients(layer)
    /\ last' = TestRec("flush_gradients", "ok", last.X, <<>>, <<>>, <<>>, 0, 0,
                       last.flushed \/ layer.X # <<>>)
    /\ UNCHANGED wrappers

NextRecurrent ==
    \/ test_RNNCell_forward
    \/ test_RNNCell_backward
    \/ test_LSTMCell_forward
    \/ test_LSTMCell_backward
    \/ Cell_flush_gradients

SpecRecurrent == InitRecurrent /\ [][NextRecurrent]_vars

\* the labels under which the tests compare gradients[k] with the reference
GoldLabel ==
    [Wax |-> "dLdWax", Waa |-> "dLdWaa", bx |-> "dLdBx", ba |-> "dLdBa",
     Wu |-> "dLdWu", Wf |-> "dLdWf", Wc |-> "dLdWc", Wo |-> "dLdWo",
     bu |-> "dLdBu", bf |-> "dLdBf", bc |-> "dLdBc", bo |-> "dLdBo"]

\* the reference gradients of the steps from..Len(X) for the cell l
Gold(l, X, from) ==
    IF IsRNN(l) THEN TorchRNNCell_grads(TorchRNNCell_init(l.parameters), X, from)
    ELSE TorchLSTMCell_grads(TorchLSTMCell_init(l.parameters), X, from)

\* the reference outputs of the first n steps
GoldY(l, X, n) ==
    IF IsRNN(l)
    THEN TorchRNNCell_forward(TorchRNNCell_init(l.parameters), SubSeq(X, 1, n))
    ELSE TorchLSTMCell_forward(TorchLSTMCell_init(l.parameters), SubSeq(X, 1, n))[1]

\* C14: after T forward calls each of the T backward calls completes; the
\* k-th consumes the cache of step T-k+1 and returns the reference dLdX of
\* that step, so the test's dLdX holds steps T-k+1..T in time order, and the
\* parameter gradients are the sums over the steps consumed so far.
C14_BackwardSweep ==
    last.op = "backward"
        => LET T == Len(last.X)
               k == Len(last.dLdX)
               gold == Gold(layer, last.X, T - k + 1)
           IN /\ last.outcome = "ok"
              /\ k \in 1..T
              /\ last.step = T - k + 1
              /\ layer.derived_variables.current_step = T - k
              /\ last.ret = gold.dLdX[T - k + 1]
              /\ last.dLdX = [i \in 1..k |-> gold.dLdX[T - k + i]]
              /\ \A p \in DOMAIN layer.gradients :
                    layer.gradients[p] = gold[GoldLabel[p]]

C14_Witness ==
    /\ IsRNN(layer)
    /\ last.op = "backward"
    /\ Len(last.dLdX) = MaxT
    /\ last.dLdX[1] # last.dLdX[MaxT]
    /\ last.dLdX[1] # 0
    /\ layer.gradients # RNNCell_flush_gradients(layer).gradients

\* C15: the t-th forward call since construction or the last flush_gradients
\* returns the cell applied to x_t and the output (and cell state) of call
\* t-1, all zero for t = 1, so the outputs collected are the reference
\* a_1..a_t, one per call.
C15_StateThreading ==
    /\ Len(last.y_preds) = Len(layer.X)
    /\ last.y_preds = GoldY(layer, last.X, Len(last.y_preds))
    /\ \A t \in DOMAIN last.y_preds :
          IF IsRNN(layer)
          THEN last.y_preds[t]
                   = nn_RNNCell(TorchRNNCell_init(layer.parameters), last.X[t],
                                Before(last.y_preds, t))
          ELSE <<last.y_preds[t], last.Cs[t]>>
                   = nn_LSTMCell(TorchLSTMCell_init(layer.parameters), last.X[t],
                                 <<Before(last.y_preds, t), Before(last.Cs, t)>>)

C15_Witness ==
    /\ IsRNN(layer)
    /\ last.op = "forward" /\ last.flushed
    /\ Len(last.y_preds) = MaxT
    /\ last.y_preds[MaxT]
          # nn_RNNCell(TorchRNNCell_init(layer.parameters), last.X[MaxT], 0)
    /\ last.y_preds[1] # 0

\* ============================================== skip-connection modules
\* SkipConnectionIdentityModule and SkipConnectionConvModule of modules.py,
\* driven as their tests drive them, next to the reference modules of
\* torch_models.py.  A tensor holds NEx examples of one channel and one
\* pixel, every kernel is 1x1 with stride 1 and no padding.  In this part
\* `layer` is the module and `last` the record of the call made last.
Sum(T) == SumOver(T, 1, NEx)

\* the activations of the tests that are exact on integers
Acts == {"ReLU", "Linear"}

Act_fn(a, z) == IF a = "ReLU" /\ z < 0 THEN 0 ELSE z

Act_grad(a, z) == IF a = "ReLU" /\ z <= 0 THEN 0 ELSE 1

\* ---------------------------------------- reference (torch_models.py)
\* nn.Conv2d with a 1x1 kernel
nn_Conv2d(c, X) == [i \in Ix |-> c.weight * X[i] + c.bias]

\* nn.BatchNorm2d in training mode, integer stand-in: the batch is centred
\* (times the batch size) and not divided by its deviation
nn_BatchNorm2d(bn, X) == [i \in Ix |-> bn.weight * (NEx * X[i] - Sum(X)) + bn.bias]

\* the gradients autograd returns for the two, given that of the output
nn_Conv2d_grad(c, X, g) ==
    [X |-> [i \in Ix |-> g[i] * c.weight],
     weight |-> Sum([i \in Ix |-> g[i] * X[i]]),
     bias |-> Sum(g)]

nn_BatchNorm2d_grad(bn, X, g) ==
    [X |-> [i \in Ix |-> bn.weight * (NEx * g[i] - Sum(g))],
     weight |-> Sum([i \in Ix |-> g[i] * (NEx * X[i] - Sum(X))]),
     bias |-> Sum(g)]

\* TorchSkipConnectionIdentity / TorchSkipConnectionConv __init__: the
\* parameters of the module's components become those of the torch layers
TorchSkip_init(act_fn, params) ==
    [c \in {"act_fn"} \cup DOMAIN params.components |->
        IF c = "act_fn" THEN act_fn
        ELSE IF "W" \in DOMAIN params.components[c]
        THEN [weight |-> params.components[c].W, bias |-> params.components[c].b]
        ELSE [weight |-> params.components[c].scaler,
              bias |-> params.components[c].intercept]]

HasSkipBranch(m) == "conv_skip" \in DOMAIN m

\* forward of either reference module: every tensor it retains
TorchSkip_forward(m, X) ==
    LET conv1_out == nn_Conv2d(m.conv1, X)
        act_fn1_out == [i \in Ix |-> Act_fn(m.act_fn, conv1_out[i])]
        batchnorm1_out == nn_BatchNorm2d(m.batchnorm1, act_fn1_out)
        conv2_out == nn_Conv2d(m.conv2, batchnorm1_out)
        batchnorm2_out == nn_BatchNorm2d(m.batchnorm2, conv2_out)
        c_skip_out == IF HasSkipBranch(m) THEN nn_Conv2d(m.conv_skip, X) ELSE X
        bn_skip_out == IF HasSkipBranch(m)
                       THEN nn_BatchNorm2d(m.batchnorm_skip, c_skip_out) ELSE X
        layer3_in == [i \in Ix |-> batchnorm2_out[i] + bn_skip_out[i]]
    IN [X |-> X, conv1_out |-> conv1_out, act_fn1_out |-> act_fn1_out,
        batchnorm1_out |-> batchnorm1_out, conv2_out |-> conv2_out,
        batchnorm2_out |-> batchnorm2_out, c_skip_out |-> c_skip_out,
        bn_skip_out |-> bn_skip_out, layer3_in |-> layer3_in,
        Y |-> [i \in Ix |-> Act_fn(m.act_fn, layer3_in[i])]]

\* faulty variant: X.grad holds the gradient of the main path only
TorchSkip_X_grad_MainOnly(main, skip) == main

\* X is used by conv1 and on the skip edge: X.grad is the sum of both
TorchSkip_X_grad(main, skip) == [i \in Ix |-> main[i] + skip[i]]

\* extract_grads: loss = Y.sum() ; loss.backward()
TorchSkip_extract_grads(m, X) ==
    LET F == TorchSkip_forward(m, X)
        dLdAdd == [i \in Ix |-> Act_grad(m.act_fn, F.layer3_in[i])]
        bn2 == nn_BatchNorm2d_grad(m.batchnorm2, F.conv2_out, dLdAdd)
        conv2 == nn_Conv2d_grad(m.conv2, F.batchnorm1_out, bn2.X)
        bn1 == nn_BatchNorm2d_grad(m.batchnorm1, F.act_fn1_out, conv2.X)
        dLdConv1_pre == [i \in Ix |-> bn1.X[i] * Act_grad(m.act_fn, F.conv1_out[i])]
        conv1 == nn_Conv2d_grad(m.conv1, X, dLdConv1_pre)
        bn_skip == nn_BatchNorm2d_grad(m.batchnorm_skip, F.c_skip_out, dLdAdd)
        conv_skip == nn_Conv2d_grad(m.conv_skip, X, bn_skip.X)
        common ==
            [Y |-> F.Y, dLdY |-> [i \in Ix |-> 1], dLdAdd |-> dLdAdd,
             dLdBn2_out |-> dLdAdd, dLdConv2_out |-> bn2.X,
             dLdBn1_out |-> conv2.X, dLdActFn1_out |-> bn1.X,
             dLdBn2_scaler |-> bn2.weight, dLdBn2_intercept |-> bn2.bias,
             dLdConv2_W |-> conv2.weight, dLdConv2_b |-> conv2.bias,
             dLdBn1_scaler |-> bn1.weight, dLdBn1_intercept |-> bn1.bias,
             dLdConv1_W |-> conv1.weight, dLdConv1_b |-> conv1.bias,
             dLdMain |-> conv1.X]
    IN IF HasSkipBranch(m)
       THEN [k \in DOMAIN common \cup
                    {"dLdBnSkip_out", "dLdConvSkip_out", "dLdBnSkip_scaler",
                     "dLdBnSkip_intercept", "dLdConvSkip_W", "dLdConvSkip_b",
                     "dLdX"} |->
                CASE k = "dLdBnSkip_out" -> dLdAdd
                  [] k = "dLdConvSkip_out" -> bn_skip.X
                  [] k = "dLdBnSkip_scaler" -> bn_skip.weight
                  [] k = "dLdBnSkip_intercept" -> bn_skip.bias
                  [] k = "dLdConvSkip_W" -> conv_skip.weight
                  [] k = "dLdConvSkip_b" -> conv_skip.bias
                  [] k = "dLdX" -> TorchSkip_X_grad(conv1.X, conv_skip.X)
                  [] OTHER -> common[k]]
       ELSE [k \in DOMAIN common \cup {"dLdX"} |->
                IF k = "dLdX" THEN TorchSkip_X_grad(conv1.X, dLdAdd)
                ELSE common[k]]

\* ------------------------------------------------ the modules (modules.py)
\* the function f with f[key] = v
Put(f, key, v) == [k \in DOMAIN f \cup {key} |-> IF k = key THEN v ELSE f[k]]

RECURSIVE Reverse(_)
Reverse(q) == IF q = <<>> THEN <<>> ELSE Append(Reverse(Tail(q)), Head(q))

\* the wiring: the sub-layers of the main path and of the skip branch in
\* forward order; the input of the first of either is the module's input X
MainPath == <<"conv1", "batchnorm1", "conv2", "batchnorm2">>

SkipPath(l) ==
    IF l.hyperparameters.layer = "SkipConnectionConvModule"
    THEN <<"conv_skip", "batchnorm_skip">> ELSE <<>>

\* the names under which the module keeps a sub-layer's output, and the
\* gradient with respect to that output
OutName ==
    [conv1 |-> "conv1_out", batchnorm1 |-> "batchnorm1_out",
     conv2 |-> "conv2_out", batchnorm2 |-> "batchnorm2_out",
     conv_skip |-> "conv_skip_out", batchnorm_skip |-> "batchnorm_skip_out"]

GradName ==
    [conv1 |-> "dLdConv1", batchnorm1 |-> "dLdBn1", conv2 |-> "dLdConv2",
     batchnorm2 |-> "dLdBn2", conv_skip |-> "dLdConvSkip",
     batchnorm_skip |-> "dLdBnSkip"]

IsConv(c) == c \in {"conv1", "conv2", "conv_skip"}

\* conv1 carries the module's activation, the other convolutions none
Sub_act(l, c) == IF c = "conv1" THEN l.hyperparameters.act_fn ELSE "Linear"

\* the tensor sub-layer c received in forward
Sub_input(l, path, c) ==
    IF c = path[1] THEN l.X
    ELSE l.derived_variables[OutName[path[CHOOSE i \in 1..(Len(path) - 1) : path[i + 1] = c]]]

\* forward of sub-layer c on the tensor T
Sub_forward(l, c, T) ==
    LET P == l.parameters.components[c]
    IN IF IsConv(c)
       THEN [i \in Ix |-> Act_fn(Sub_act(l, c), P.W * T[i] + P.b)]
       ELSE [i \in Ix |-> P.scaler * (NEx * T[i] - Sum(T)) + P.intercept]

\* backward of sub-layer c on the gradient g of its output: the gradient of
\* its input and those of its parameters
Sub_backward(l, path, c, g) ==
    LET P == l.parameters.components[c]
        T == Sub_input(l, path, c)
        dZ == [i \in Ix |-> g[i] * Act_grad(Sub_act(l, c), P.W * T[i] + P.b)]
    IN IF IsConv(c)
       THEN [dX |-> [i \in Ix |-> dZ[i] * P.W],
             grads |-> [W |-> Sum([i \in Ix |-> dZ[i] * T[i]]), b |-> Sum(dZ)]]
       ELSE [dX |-> [i \in Ix |-> P.scaler * (NEx * g[i] - Sum(g))],
             grads |-> [scaler |-> Sum([i \in Ix |-> g[i] * (NEx * T[i] - Sum(T))]),
                        intercept |-> Sum(g)]]

\* forward along a path: the module after the sub-layers of `todo` ran on T
RECURSIVE Path_forward(_, _, _)
Path_forward(l, todo, T) ==
    IF todo = <<>> THEN l
    ELSE Path_forward(
             [l EXCEPT !.derived_variables =
                 Put(@, OutName[Head(todo)], Sub_forward(l, Head(todo), T))],
             Tail(todo), Sub_forward(l, Head(todo), T))

\* the output of a path, the module's input for the empty path
Path_out(l, path) ==
    IF path = <<>> THEN l.X ELSE l.derived_variables[OutName[path[Len(path)]]]

Module_init(kind, act_fn, components) ==
    [trainable |-> TRUE,
     hyperparameters |-> [layer |-> kind, act_fn |-> act_fn],
     parameters |-> [components |-> components],
     gradients |->
        [components |->
            [c \in DOMAIN components |-> [k \in DOMAIN components[c] |-> 0]]],
     derived_variables |-> <<>>,
     X |-> NoTensor]

\* the input of the closing activation: main path plus skip branch
Module_add_in(l) ==
    [i \in Ix |-> Path_out(l, MainPath)[i] + Path_out(l, SkipPath(l))[i]]

Module_forward(l, X) ==
    LET l0 == [l EXCEPT !.X = X, !.derived_variables = <<>>]
        l1 == Path_forward(l0, MainPath, X)
    IN Path_forward(l1, SkipPath(l), X)

Module_forward_ret(l, X) ==
    [i \in Ix |->
        Act_fn(l.hyperparameters.act_fn, Module_add_in(Module_forward(l, X))[i])]

\* backward along a path: r = [l, g, calls] is the module, the gradient
\* reaching the next sub-layer and the sub-layers called so far; `todo` are
\* the sub-layers still to call, in the order of the calls
RECURSIVE Path_backward(_, _, _)
Path_backward(r, path, todo) ==
    IF todo = <<>> THEN r
    ELSE LET c == Head(todo)
             B == Sub_backward(r.l, path, c, r.g)
         IN Path_backward(
                [l |-> [r.l EXCEPT !.derived_variables = Put(@, GradName[c], r.g),
                                   !.gradients.components[c] =
                                       [k \in DOMAIN @ |-> @[k] + B.grads[k]]],
                 g |-> B.dX,
                 calls |-> Append(r.calls, c)],
                path, Tail(todo))

\* the order in which backward calls the sub-layers of a path
Module_backward_order(path) == Reverse(path)

\* the gradient of the input of the closing activation
Module_dLdAdd(l, dLdy) ==
    [i \in Ix |-> dLdy[i] * Act_grad(l.hyperparameters.act_fn, Module_add_in(l)[i])]

\* backward: the main path, then the skip branch, both from dLdAdd
Module_backward_main(l, dLdy) ==
    Path_backward([l |-> l, g |-> Module_dLdAdd(l, dLdy), calls |-> <<>>],
                  MainPath, Module_backward_order(MainPath))

Module_backward_skip(l, dLdy) ==
    LET main == Module_backward_main(l, dLdy)
    IN Path_backward([l |-> main.l, g |-> Module_dLdAdd(l, dLdy),
                      calls |-> main.calls],
                     SkipPath(l), Module_backward_order(SkipPath(l)))

Module_backward(l, dLdy) == Module_backward_skip(l, dLdy).l

Module_backward_ret(l, dLdy) ==
    [i \in Ix |-> Module_backward_main(l, dLdy).g[i]
                    + Module_backward_skip(l, dLdy).g[i]]

Module_flush_gradients(l) ==
    [l EXCEPT !.gradients.components =
                  [c \in DOMAIN @ |-> [k \in DOMAIN @[c] |-> 0]],
              !.derived_variables = <<>>,
              !.X = NoTensor]

\* ----------- test_SkipConnectionIdentityModule / ...ConvModule (tests.py)
ConvIn(Ws, bs) == {[W |-> W, b |-> b] : W \in Ws, b \in bs}

BNIn(ss, is) == {[scaler |-> sc, intercept |-> ic] : sc \in ss, ic \in is}

\* the modules of the tests
IdentityModules ==
    {Module_init("SkipConnectionIdentityModule", a,
                 [conv1 |-> c1, batchnorm1 |-> b1, conv2 |-> c2, batchnorm2 |-> b2]) :
        a \in Acts, c1 \in ConvIn({1, -1}, {0, 1}), b1 \in BNIn({1}, {0, 1}),
        c2 \in ConvIn({1, 2}, {0}), b2 \in BNIn({1, -1}, {0})}

ConvModules ==
    {Module_init("SkipConnectionConvModule", a,
                 [conv1 |-> c1, batchnorm1 |-> b1, conv2 |-> c2, batchnorm2 |-> b2,
                  conv_skip |-> cs, batchnorm_skip |-> [scaler |-> 1, intercept |-> 0]]) :
        a \in Acts, c1 \in ConvIn({1, -1}, {0, 1}), b1 \in BNIn({1}, {0, 1}),
        c2 \in ConvIn({1, 2}, {0}), b2 \in BNIn({1, -1}, {0}),
        cs \in ConvIn({1, -1}, {0})}

\* X = random_tensor(...)
ModuleXIn == [Ix -> {-1, 0, 1}]

\* the record of the call made last on the module: main and skip are the
\* gradients that reached the module's input along the main path and along
\* the skip edge, calls the sub-layers whose backward was called, in order
ModuleRec(op, X, ret, calls, main, skip) ==
    [op |-> op, outcome |-> "ok", X |-> X, ret |-> ret, calls |-> calls,
     main |-> main, skip |-> skip]

InitModules ==
    /\ layer \in IdentityModules \cup ConvModules
    /\ wrappers = <<>>
    /\ last = ModuleRec("init", NoTensor, NoTensor, <<>>, NoTensor, NoTensor)

\* y_pred = L1.forward(X)
test_Module_forward(X) ==
    /\ layer.X = NoTensor
    /\ layer' = Module_forward(layer, X)
    /\ last' = ModuleRec("forward", X, Module_forward_ret(layer, X), <<>>,
                         NoTensor, NoTensor)
    /\ UNCHANGED wrappers

\* dLdy = np.ones_like(y_pred) ; dLdX = L1.backward(dLdy)
test_Module_backward ==
    /\ last.op = "forward"
    /\ LET main == Module_backward_main(layer, Ones)
           skip == Module_backward_skip(layer, Ones)
       IN /\ layer' = skip.l
          /\ last' = ModuleRec("backward", last.X,
                               Module_backward_ret(layer, Ones),
                               skip.calls, main.g, skip.g)
    /\ UNCHANGED wrappers

\* the next trial starts from zero gradients and an empty cache
Module_flush ==
    /\ layer.X # NoTensor
    /\ layer' = Module_flush_gradients(layer)
    /\ last' = ModuleRec("flush_gradients", NoTensor, NoTensor, <<>>,
                         NoTensor, NoTensor)
    /\ UNCHANGED wrappers

NextModules ==
    \/ \E X \in ModuleXIn : test_Module_forward(X)
    \/ test_Module_backward
    \/ Module_flush

SpecModules == InitModules /\ [][NextModules]_vars

\* the position of sub-layer c in a sequence of calls, 0 when it is absent
Pos(calls, c) ==
    IF \E i \in DOMAIN calls : calls[i] = c
    THEN CHOOSE i \in DOMAIN calls : calls[i] = c ELSE 0

ModuleGold ==
    TorchSkip_extract_grads(
        TorchSkip_init(layer.hyperparameters.act_fn, layer.parameters), last.X)

\* C16: backward of a skip-connection module calls batchnorm2, conv2,
\* batchnorm1, conv1 in this order, and batchnorm_skip before conv_skip when
\* the module has a skip branch, each once; the gradient reaching every
\* sub-layer is the reference gradient of that sub-layer's output, and the
\* dLdX returned is the main-path gradient plus the gradient over the skip
\* edge, which starts from the gradient of the post-activation output.
C16_BackwardReverseOrder ==
    last.op = "backward"
        => LET gold == ModuleGold
               dv == layer.derived_variables
           IN /\ Len(last.calls) = Len(MainPath) + Len(SkipPath(layer))
              /\ 0 < Pos(last.calls, "batchnorm2")
              /\ Pos(last.calls, "batchnorm2") < Pos(last.calls, "conv2")
              /\ Pos(last.calls, "conv2") < Pos(last.calls, "batchnorm1")
              /\ Pos(last.calls, "batchnorm1") < Pos(last.calls, "conv1")
              /\ IF SkipPath(layer) = <<>>
                 THEN /\ Pos(last.calls, "batchnorm_skip") = 0
                      /\ Pos(last.calls, "conv_skip") = 0
                      /\ last.skip = gold.dLdAdd
                 ELSE /\ 0 < Pos(last.calls, "batchnorm_skip")
                      /\ Pos(last.calls, "batchnorm_skip")
                            < Pos(last.calls, "conv_skip")
                      /\ dv.dLdBnSkip = gold.dLdBnSkip_out
                      /\ dv.dLdConvSkip = gold.dLdConvSkip_out
              /\ dv.dLdBn2 = gold.dLdBn2_out
              /\ dv.dLdConv2 = gold.dLdConv2_out
              /\ dv.dLdBn1 = gold.dLdBn1_out
              /\ dv.dLdConv1 = gold.dLdActFn1_out
              /\ last.main = gold.dLdMain
              /\ last.ret = [i \in Ix |-> last.main[i] + last.skip[i]]
              /\ last.ret = gold.dLdX

C16_Witness ==
    /\ last.op = "backward"
    /\ SkipPath(layer) # <<>>
    /\ \E i \in Ix : last.main[i] # 0
    /\ \E i \in Ix : last.skip[i] # 0 /\ last.skip[i] # last.main[i]
    /\ layer.derived_variables.dLdConv2 # layer.derived_variables.dLdBn2

\* ============================================================ Add layer
\* Add of layers.py driven as test_AddLayer drives it, next to TorchAddLayer.
\* In this part `layer` is the Add layer and `last` the record of the call
\* made last; an input is a tensor of NEx examples of one value.
MaxEntries == 3

\* ------------------------------------------ TorchAddLayer (torch_models.py)
\* the loop of TorchAddLayer.forward: self.sum after the first n inputs
RECURSIVE TorchAddLayer_sum(_, _)
TorchAddLayer_sum(Xs, n) ==
    IF n = 1 THEN Xs[1]
    ELSE [i \in Ix |-> TorchAddLayer_sum(Xs, n - 1)[i] + Xs[n][i]]

TorchAddLayer_forward(act_fn, Xs) ==
    [i \in Ix |-> Act_fn(act_fn, TorchAddLayer_sum(Xs, Len(Xs))[i])]

\* faulty variant: the gradient of the sum is shared out among the inputs
TorchAddLayer_xgrad_Mean(dLdSum, n) == [i \in Ix |-> dLdSum[i] \div n]

\* xi.grad after loss.backward(): every input enters the sum with factor 1
TorchAddLayer_xgrad(dLdSum, n) == dLdSum

\* extract_grads: loss = Y.sum() ; loss.backward() ; dLdXs[k] is "dLdX{k}"
TorchAddLayer_extract_grads(act_fn, Xs) ==
    LET sum == TorchAddLayer_sum(Xs, Len(Xs))
        dLdSum == [i \in Ix |-> Act_grad(act_fn, sum[i])]
    IN [Xs |-> Xs, Sum |-> sum, Y |-> TorchAddLayer_forward(act_fn, Xs),
        dLdY |-> Ones, dLdSum |-> dLdSum,
        dLdXs |-> [k \in DOMAIN Xs |-> TorchAddLayer_xgrad(dLdSum, Len(Xs))]]

\* ---------------------------------------------------------- Add (layers.py)
Add_init(act_fn) ==
    [trainable |-> TRUE,
     parameters |-> <<>>,
     gradients |-> <<>>,
     hyperparameters |-> [layer |-> "Add", act_fn |-> act_fn],
     derived_variables |-> [sum |-> NoTensor],
     X |-> <<>>]

\* the elementwise sum of the tensors Xs
RECURSIVE Add_sum(_)
Add_sum(Xs) ==
    IF Len(Xs) = 1 THEN Xs[1]
    ELSE [i \in Ix |-> Xs[1][i] + Add_sum(Tail(Xs))[i]]

Add_forward(l, Xs) ==
    [l EXCEPT !.X = Xs, !.derived_variables = [sum |-> Add_sum(Xs)]]

Add_forward_ret(l, Xs) ==
    [i \in Ix |-> Act_fn(l.hyperparameters.act_fn, Add_sum(Xs)[i])]

\* backward returns one gradient per input: dLdY * act_fn.grad(sum) each
Add_backward_ret(l, dLdY) ==
    [k \in DOMAIN l.X |->
        [i \in Ix |->
            dLdY[i] * Act_grad(l.hyperparameters.act_fn, l.derived_variables.sum[i])]]

Add_flush_gradients(l) ==
    [l EXCEPT !.X = <<>>, !.derived_variables = [sum |-> NoTensor]]

\* ------------------------------------------------- test_AddLayer (tests.py)
\* Xs: n_entries tensors of the same shape
AddXIn == UNION {[1..n_entries -> [Ix -> {-1, 1}]] : n_entries \in 2..MaxEntries}

AddRec(op, Xs, dLdy, ret) ==
    [op |-> op, outcome |-> "ok", Xs |-> Xs, dLdy |-> dLdy, ret |-> ret]

InitAdd ==
    /\ \E act_fn \in Acts : layer = Add_init(act_fn)
    /\ wrappers = <<>>
    /\ last = AddRec("init", <<>>, NoTensor, NoTensor)

\* y_pred = L1.forward(Xs)
test_Add_forward(Xs) ==
    /\ layer.X = <<>>
    /\ layer' = Add_forward(layer, Xs)
    /\ last' = AddRec("forward", Xs, NoTensor, Add_forward_ret(layer, Xs))
    /\ UNCHANGED wrappers

\* dLdXs = L1.backward(dLdy)
test_Add_backward(dLdy) ==
    /\ last.op = "forward"
    /\ last' = AddRec("backward", last.Xs, dLdy, Add_backward_ret(layer, dLdy))
    /\ UNCHANGED <<layer, wrappers>>

\* the next trial starts from an empty cache
Add_flush ==
    /\ layer.X # <<>>
    /\ layer' = Add_flush_gradients(layer)
    /\ last' = AddRec("flush_gradients", <<>>, NoTensor, NoTensor)
    /\ UNCHANGED wrappers

NextAdd ==
    \/ \E Xs \in AddXIn : test_Add_forward(Xs)
    \/ \E dLdy \in DIn : test_Add_backward(dLdy)
    \/ Add_flush

SpecAdd == InitAdd /\ [][NextAdd]_vars

\* C17: backward of Add after forward on n inputs returns n gradients, the
\* k-th for the k-th input, each equal to dLdY times act_fn.grad of the sum
\* of the inputs, element by element; for dLdY = 1 they are the reference
\* gradients dLdX1..dLdXn.
C17_AddBackwardBroadcast ==
    last.op = "backward"
        => LET gold == TorchAddLayer_extract_grads(layer.hyperparameters.act_fn,
                                                   last.Xs)
           IN /\ DOMAIN last.ret = DOMAIN last.Xs
              /\ \A k \in DOMAIN last.Xs :
                    /\ DOMAIN last.ret[k] = DOMAIN last.Xs[k]
                    /\ \A i \in Ix :
                          last.ret[k][i]
                              = last.dLdy[i]
                                  * Act_grad(layer.hyperparameters.act_fn, gold.Sum[i])
                    /\ last.dLdy = Ones => last.ret[k] = gold.dLdXs[k]

C17_Witness ==
    /\ last.op = "backward"
    /\ Len(last.Xs) = MaxEntries
    /\ last.dLdy = Ones
    /\ last.ret[1][1] # last.ret[1][2]
    /\ last.Xs[1] # last.Xs[MaxEntries]

\* ===================================================== BidirectionalLSTM
\* X of the test has shape (n_ex, n_in, n_t) with n_ex = n_in = n_out = 1:
\* X[e][i][t]; y_pred and dLdA have shape (n_ex, 2 n_out, n_t)

\* ---------------------------------------- BidirectionalLSTM (modules.py)
BidirectionalLSTM_init(cell_fwd, cell_bwd) ==
    [trainable |-> TRUE,
     hyperparameters |-> [layer |-> "BidirectionalLSTM", act_fn |-> "Tanh",
                          gate_fn |-> "Sigmoid"],
     n_in |-> 1,
     n_out |-> 1,
     cell_fwd |-> cell_fwd,
     cell_bwd |-> cell_bwd]

BidirectionalLSTM_parameters(l) ==
    [components |-> [forward |-> l.cell_fwd.parameters,
                     backward |-> l.cell_bwd.parameters]]

BidirectionalLSTM_gradients(l) ==
    [components |-> [forward |-> l.cell_fwd.gradients,
                     backward |-> l.cell_bwd.gradients]]

\* range(n_t) as the time steps 1..n_t in increasing order
Times(n_t) == [t \in 1..n_t |-> t]

\* cell.forward(X[:, :, t]) for the t of `ts` in turn
RECURSIVE Cell_run(_, _, _)
Cell_run(cell, X, ts) ==
    IF ts = <<>> THEN cell
    ELSE Cell_run(LSTMCell_forward(cell, X[1][1][Head(ts)]), X, Tail(ts))

\* the forward cell over t = 1..n_t, then the backward cell over t = n_t..1
BidirectionalLSTM_forward(l, X) ==
    LET n_t == Len(X[1][1])
    IN [l EXCEPT !.cell_fwd = Cell_run(@, X, Times(n_t)),
                 !.cell_bwd = Cell_run(@, X, Reverse(Times(n_t)))]

\* Y[t] = concatenate([forward yt, backward yt], axis=1) ; dstack(Y): the
\* k-th call of this forward left its output at A[calls before + k]
BidirectionalLSTM_forward_ret(l, X) ==
    LET n_t == Len(X[1][1])
        r == BidirectionalLSTM_forward(l, X)
        Af == r.cell_fwd.derived_variables.A
        Ab == r.cell_bwd.derived_variables.A
        nf == Len(l.cell_fwd.X)
        nb == Len(l.cell_bwd.X)
    IN << <<[t \in 1..n_t |-> Af[nf + t]],
            [t \in 1..n_t |-> Ab[nb + n_t - t + 1]]>> >>

\* cell.backward(dL[t]) for the t of `ts` in turn; done = <<cell, the dLdXt
\* returned so far in call order>>
RECURSIVE Cell_unroll(_, _, _)
Cell_unroll(done, dL, ts) ==
    IF ts = <<>> THEN done
    ELSE Cell_unroll(<<LSTMCell_backward(done[1], dL[Head(ts)]),
                       Append(done[2],
                              LSTMCell_backward_ret(done[1], dL[Head(ts)]))>>,
                     dL, Tail(ts))

\* the forward cell consumes dLdA[:, :n_out, t] for t = n_t..1 and the
\* backward cell dLdA[:, n_out:, t] for t = 1..n_t
BidirectionalLSTM_unroll(l, dLdA) ==
    LET n_t == Len(dLdA[1][1])
    IN [f |-> Cell_unroll(<<l.cell_fwd, <<>> >>, dLdA[1][1], Reverse(Times(n_t))),
        b |-> Cell_unroll(<<l.cell_bwd, <<>> >>, dLdA[1][2], Times(n_t))]

BidirectionalLSTM_backward(l, dLdA) ==
    LET u == BidirectionalLSTM_unroll(l, dLdA)
    IN [l EXCEPT !.cell_fwd = u.f[1], !.cell_bwd = u.b[1]]

\* dLdX[t] = dLdX_f[t] + dLdX_b[t] ; dstack(dLdX)
BidirectionalLSTM_backward_ret(l, dLdA) ==
    LET n_t == Len(dLdA[1][1])
        u == BidirectionalLSTM_unroll(l, dLdA)
        dLdX_f == Reverse(u.f[2])
        dLdX_b == u.b[2]
    IN << <<[t \in 1..n_t |-> dLdX_f[t] + dLdX_b[t]]>> >>

BidirectionalLSTM_flush_gradients(l) ==
    [l EXCEPT !.cell_fwd = LSTMCell_flush_gradients(@),
              !.cell_bwd = LSTMCell_flush_gradients(@)]

\* ------------------------------- TorchBidirectionalLSTM (torch_models.py)
\* the parameters of nn.LSTM(bidirectional=True), each direction packed as
\* TorchLSTMCell packs its cell
TorchBidirectionalLSTM_init(params) ==
    LET f == TorchLSTMCell_init(params.components.forward)
        b == TorchLSTMCell_init(params.components.backward)
    IN [weight_ih_l0 |-> f.weight_ih, weight_hh_l0 |-> f.weight_hh,
        bias_ih_l0 |-> f.bias_ih, bias_hh_l0 |-> f.bias_hh,
        weight_ih_l0_reverse |-> b.weight_ih, weight_hh_l0_reverse |-> b.weight_hh,
        bias_ih_l0_reverse |-> b.bias_ih, bias_hh_l0_reverse |-> b.bias_hh]

\* the two directions of nn.LSTM as cells
nn_LSTM_l0(m) ==
    [weight_ih |-> m.weight_ih_l0, weight_hh |-> m.weight_hh_l0,
     bias_ih |-> m.bias_ih_l0, bias_hh |-> m.bias_hh_l0]

nn_LSTM_l0_reverse(m) ==
    [weight_ih |-> m.weight_ih_l0_reverse, weight_hh |-> m.weight_hh_l0_reverse,
     bias_ih |-> m.bias_ih_l0_reverse, bias_hh |-> m.bias_hh_l0_reverse]

\* np.moveaxis(X, [0, 1, 2], [-2, -1, -3]):
\* (batch, input_size, seq_len) -> (seq_len, batch, input_size)
moveaxis_to_seq(X) ==
    [t \in 1..Len(X[1][1]) |->
        [e \in 1..Len(X) |-> [i \in 1..Len(X[1]) |-> X[e][i][t]]]]

\* np.moveaxis(A, [0, 1, 2], [-1, -3, -2]):
\* (seq_len, batch, features) -> (batch, features, seq_len)
moveaxis_from_seq(A) ==
    [e \in 1..Len(A[1]) |->
        [i \in 1..Len(A[1][1]) |-> [t \in 1..Len(A) |-> A[t][e][i]]]]

\* the input of one direction as the sequence of its steps
nn_LSTM_steps(Xs) == [t \in 1..Len(Xs) |-> Xs[t][1][1]]

\* faulty variant: the reverse direction's outputs are left in the order
\* they were computed in
nn_LSTM_reverse_Unaligned(m, xs) ==
    LET AC == TorchLSTMCell_loop(nn_LSTM_l0_reverse(m), Reverse(xs), <<>>)
    IN [t \in DOMAIN xs |-> AC[t][1]]

\* the reverse direction reads the sequence from its last step to its first
\* and its output for step t is stored at t
nn_LSTM_reverse(m, xs) ==
    LET AC == TorchLSTMCell_loop(nn_LSTM_l0_reverse(m), Reverse(xs), <<>>)
    IN [t \in DOMAIN xs |-> AC[Len(xs) - t + 1][1]]

\* output of nn.LSTM: (seq_len, batch, 2 * hidden_size), the forward
\* direction's features before the reverse direction's
nn_LSTM(m, Xs) ==
    LET xs == nn_LSTM_steps(Xs)
        hf == TorchLSTMCell_loop(nn_LSTM_l0(m), xs, <<>>)
        hb == nn_LSTM_reverse(m, xs)
    IN [t \in DOMAIN xs |-> << <<hf[t][1], hb[t]>> >>]

\* self.A, (At, Ct) = self.layer1(self.X) ; return self.A
TorchBidirectionalLSTM_forward(m, X) == nn_LSTM(m, moveaxis_to_seq(X))

\* loss = A.sum() ; loss.backward(): X.grad, shape (seq_len, batch, input_size)
TorchBidirectionalLSTM_X_grad(m, X) ==
    LET xs == nn_LSTM_steps(moveaxis_to_seq(X))
        gf == TorchLSTMCell_grad(nn_LSTM_l0(m), xs, 1).X
        gb == TorchLSTMCell_grad(nn_LSTM_l0_reverse(m), Reverse(xs), 1).X
    IN [t \in DOMAIN xs |-> << <<gf[t] + gb[Len(xs) - t + 1]>> >>]

TorchBidirectionalLSTM_extract_grads(m, X) ==
    LET xs == nn_LSTM_steps(moveaxis_to_seq(X))
        F == TorchLSTMCell_grads(nn_LSTM_l0(m), xs, 1)
        B == TorchLSTMCell_grads(nn_LSTM_l0_reverse(m), Reverse(xs), 1)
    IN [X |-> moveaxis_from_seq(moveaxis_to_seq(X)),
        y |-> moveaxis_from_seq(TorchBidirectionalLSTM_forward(m, X)),
        dLdX |-> moveaxis_from_seq(TorchBidirectionalLSTM_X_grad(m, X)),
        forward |-> [k \in DOMAIN F \ {"dLdX"} |-> F[k]],
        backward |-> [k \in DOMAIN B \ {"dLdX"} |-> B[k]]]

\* ------------------------------------- test_BidirectionalLSTM (tests.py)
BiLSTMs ==
    {BidirectionalLSTM_init(f, b) :
        f \in {c \in LSTMCells : c.parameters.Wu = <<0, 1>>},
        b \in {c \in LSTMCells : c.parameters.Wf = <<1, 0>>}}
BiXIn == {<< <<x>> >> : x \in XSeqs}

\* np.ones_like(y_pred)
ones_like3(y) ==
    [e \in 1..Len(y) |->
        [i \in 1..Len(y[1]) |-> [t \in 1..Len(y[1][1]) |-> 1]]]

BiRec(op, outcome, X, y_pred, ret, flushed) ==
    [op |-> op, outcome |-> outcome, X |-> X, y_pred |-> y_pred, ret |-> ret,
     flushed |-> flushed]

InitBiLSTM ==
    /\ layer \in BiLSTMs
    /\ wrappers = <<>>
    /\ \E X \in BiXIn : last = BiRec("init", "ok", X, <<>>, <<>>, FALSE)

\* y_pred = L1.forward(X)
test_BidirectionalLSTM_forward ==
    /\ last.op \in {"init", "flush_gradients"}
    /\ layer' = BidirectionalLSTM_forward(layer, last.X)
    /\ LET y_pred == BidirectionalLSTM_forward_ret(layer, last.X)
       IN last' = BiRec("forward", "ok", last.X, y_pred, y_pred, last.flushed)
    /\ UNCHANGED wrappers

\* dLdA = np.ones_like(y_pred) ; dLdX = L1.backward(dLdA)
test_BidirectionalLSTM_backward ==
    /\ last.op = "forward"
    /\ LET dLdA == ones_like3(last.y_pred)
       IN /\ layer' = BidirectionalLSTM_backward(layer, dLdA)
          /\ last' = BiRec("backward", "ok", last.X, last.y_pred,
                           BidirectionalLSTM_backward_ret(layer, dLdA),
                           last.flushed)
    /\ UNCHANGED wrappers

BidirectionalLSTM_flush ==
    /\ last.op = "backward"
    /\ layer' = BidirectionalLSTM_flush_gradients(layer)
    /\ last' = BiRec("flush_gradients", "ok", last.X, <<>>, <<>>, TRUE)
    /\ UNCHANGED wrappers

NextBiLSTM ==
    \/ test_BidirectionalLSTM_forward
    \/ test_BidirectionalLSTM_backward
    \/ BidirectionalLSTM_flush

SpecBiLSTM == InitBiLSTM /\ [][NextBiLSTM]_vars

\* golds = gold_mod.extract_grads(X) for the module's parameters
BiGold ==
    TorchBidirectionalLSTM_extract_grads(
        TorchBidirectionalLSTM_init(BidirectionalLSTM_parameters(layer)), last.X)

\* the output of a cell that starts empty and is stepped over the t of `ts`
CellOutAfter(cell, X, ts) ==
    Cell_run(LSTMCell_flush_gradients(cell), X, ts).derived_variables.A[Len(ts)]

\* C18: after BidirectionalLSTM.forward on a sequence of n_t steps, y_pred
\* holds for every step t, at position t of the time axis, 2 n_out features:
\* first the output of the forward cell after it processed steps 1..t, then
\* the output of the backward cell after it processed steps n_t down to t;
\* this is the output of the bidirectional reference.
C18_BidirectionalConcat ==
    last.op = "forward"
        => LET n_t == Len(last.X[1][1])
               gold == BiGold
           IN /\ Len(last.ret) = 1
              /\ Len(last.ret[1]) = 2 * layer.n_out
              /\ \A i \in 1..2 : Len(last.ret[1][i]) = n_t
              /\ \A t \in 1..n_t :
                    /\ last.ret[1][1][t]
                          = CellOutAfter(layer.cell_fwd, last.X, Times(t))
                    /\ last.ret[1][2][t]
                          = CellOutAfter(layer.cell_bwd, last.X,
                                         Reverse(SubSeq(Times(n_t), t, n_t)))
              /\ last.ret = gold.y

\* a full-length sequence on which the two directions differ at a step and
\* the backward cell's outputs depend on the order of the steps
C18_Witness ==
    /\ last.op = "forward"
    /\ Len(last.X[1][1]) = MaxT
    /\ \E t \in 1..MaxT : last.ret[1][1][t] # last.ret[1][2][t]
    /\ \E t \in 1..MaxT : last.ret[1][2][t] # last.ret[1][2][MaxT - t + 1]
    /\ last.ret[1][2]
          # [t \in 1..MaxT |->
                CellOutAfter(layer.cell_bwd, last.X, Times(t))]

\* ============================================ Conv2D, Pool2D, FullyConnected
\* The layers of layers.py on tensors with their shapes, driven as
\* test_Conv2D, test_Pool2D and test_FullyConnected drive them, next to the
\* reference layers of torch_models.py.  A tensor is a nested sequence:
\* X[e][r][c][ch] has shape (n_ex, in_rows, in_cols, n_in).  In this part
\* `layer` is the layer under test and `last` the record of the trial.

\* the largest in_rows, in_cols, n_in of a trial and the largest padding
MaxIn == 3
MaxPad == 1

\* the tensor of shape d whose entry at (i, j, k, l) is F(i, j, k, l)
Tensor4(d, F(_, _, _, _)) ==
    [i \in 1..d[1] |-> [j \in 1..d[2] |-> [k \in 1..d[3] |-> [l \in 1..d[4] |->
        F(i, j, k, l)]]]]

Tensor2(d, F(_, _)) == [i \in 1..d[1] |-> [j \in 1..d[2] |-> F(i, j)]]

\* F(1) + ... + F(n)
Sigma(n, F(_)) == SumOver([i \in 1..n |-> F(i)], 1, n)

\* X.shape of a tensor of rank n with no empty axis
RECURSIVE shape(_, _)
shape(X, n) == IF n = 0 THEN <<>> ELSE <<Len(X)>> \o shape(X[1], n - 1)

\* every axis of X has the length sh gives it
RECURSIVE IsTensor(_, _)
IsTensor(X, sh) ==
    \/ sh = <<>>
    \/ /\ Len(X) = Head(sh)
       /\ \A i \in 1..Len(X) : IsTensor(X[i], Tail(sh))

\* np.ones_like(y) for a tensor of rank 4 and of rank 2
ones_like4(y) == Tensor4(shape(y, 4), LAMBDA i, j, k, l : 1)
ones_like2(y) == Tensor2(shape(y, 2), LAMBDA i, j : 1)

\* ------------------------------------------------------ Conv2D (layers.py)
\* W has shape (kernel rows, kernel cols, in_ch, out_ch), b (1, 1, 1, out_ch)
Conv2D_init(in_ch, out_ch, kernel_shape, act_fn, pad, stride, W, b) ==
    [trainable |-> TRUE,
     parameters |-> [W |-> W, b |-> b],
     gradients |-> [W |-> Tensor4(shape(W, 4), LAMBDA i, j, k, l : 0),
                    b |-> Tensor4(shape(b, 4), LAMBDA i, j, k, l : 0)],
     hyperparameters |-> [layer |-> "Conv2D", pad |-> pad, stride |-> stride,
                          kernel_shape |-> kernel_shape, in_ch |-> in_ch,
                          out_ch |-> out_ch, act_fn |-> act_fn],
     derived_variables |-> [Z |-> <<>>, out_rows |-> 0, out_cols |-> 0],
     X |-> <<>>]

\* symmetric zero padding of the two spatial axes
pad2D(X, p) ==
    LET d == shape(X, 4)
    IN Tensor4(<<d[1], d[2] + 2 * p, d[3] + 2 * p, d[4]>>,
               LAMBDA e, r, c, ch :
                   IF r - p \in 1..d[2] /\ c - p \in 1..d[3]
                   THEN X[e][r - p][c - p][ch] ELSE 0)

\* the padding is stripped from both ends of the two spatial axes
unpad2D(Xp, p) ==
    LET d == shape(Xp, 4)
    IN Tensor4(<<d[1], d[2] - 2 * p, d[3] - 2 * p, d[4]>>,
               LAMBDA e, r, c, ch : Xp[e][r + p][c + p][ch])

\* output spatial size: floor(1 + (in + 2 pad - kernel) / stride)
Conv2D_out_dim(in, pad, kernel, stride) ==
    1 + (in + 2 * pad - kernel) \div stride

\* Z at every output position and output channel: the receptive field of
\* the padded input times the kernel slice, plus the bias
Conv2D_Z(l, X) ==
    LET hp == l.hyperparameters
        W == l.parameters.W
        s == hp.stride
        Xp == pad2D(X, hp.pad)
        out_rows == Conv2D_out_dim(Len(X[1]), hp.pad, hp.kernel_shape[1], s)
        out_cols == Conv2D_out_dim(Len(X[1][1]), hp.pad, hp.kernel_shape[2], s)
    IN Tensor4(<<Len(X), out_rows, out_cols, hp.out_ch>>,
               LAMBDA e, i, j, o :
                   l.parameters.b[1][1][1][o]
                     + Sigma(hp.kernel_shape[1], LAMBDA a :
                         Sigma(hp.kernel_shape[2], LAMBDA c :
                           Sigma(hp.in_ch, LAMBDA ch :
                             Xp[e][(i - 1) * s + a][(j - 1) * s + c][ch]
                                 * W[a][c][ch][o]))))

Conv2D_forward(l, X) ==
    LET Z == Conv2D_Z(l, X)
    IN [l EXCEPT !.X = X,
                 !.derived_variables =
                     [Z |-> Z, out_rows |-> Len(Z[1]), out_cols |-> Len(Z[1][1])]]

Conv2D_forward_ret(l, X) ==
    LET Z == Conv2D_Z(l, X)
    IN Tensor4(shape(Z, 4),
               LAMBDA e, i, j, o : Act_fn(l.hyperparameters.act_fn, Z[e][i][j][o]))

\* dLdZ = dLdY . act_fn.grad(Z)
Conv2D_dZ(l, dLdY) ==
    LET Z == l.derived_variables.Z
    IN Tensor4(shape(Z, 4),
               LAMBDA e, i, j, o :
                   dLdY[e][i][j][o] * Act_grad(l.hyperparameters.act_fn, Z[e][i][j][o]))

\* the gradient for the padded input: dLdZ correlated with the kernel
Conv2D_dXp(l, dLdY) ==
    LET hp == l.hyperparameters
        W == l.parameters.W
        s == hp.stride
        dZ == Conv2D_dZ(l, dLdY)
        dz == shape(dZ, 4)
    IN Tensor4(shape(pad2D(l.X, hp.pad), 4),
               LAMBDA e, r, c, ch :
                   Sigma(dz[2], LAMBDA i :
                     Sigma(dz[3], LAMBDA j :
                       Sigma(dz[4], LAMBDA o :
                         IF /\ r - (i - 1) * s \in 1..hp.kernel_shape[1]
                            /\ c - (j - 1) * s \in 1..hp.kernel_shape[2]
                         THEN dZ[e][i][j][o]
                                * W[r - (i - 1) * s][c - (j - 1) * s][ch][o]
                         ELSE 0))))

\* dLdX: the gradient for the padded input with the padding stripped
Conv2D_backward_ret(l, dLdY) == unpad2D(Conv2D_dXp(l, dLdY), l.hyperparameters.pad)

\* dLdW and dLdb: the padded input correlated against dLdZ
Conv2D_backward(l, dLdY) ==
    LET hp == l.hyperparameters
        s == hp.stride
        Xp == pad2D(l.X, hp.pad)
        dZ == Conv2D_dZ(l, dLdY)
        dz == shape(dZ, 4)
    IN [l EXCEPT !.gradients =
            [W |-> Tensor4(shape(l.parameters.W, 4),
                           LAMBDA a, c, ch, o :
                               @.W[a][c][ch][o]
                                 + Sigma(dz[1], LAMBDA e :
                                     Sigma(dz[2], LAMBDA i :
                                       Sigma(dz[3], LAMBDA j :
                                         Xp[e][(i - 1) * s + a][(j - 1) * s + c][ch]
                                             * dZ[e][i][j][o])))),
             b |-> Tensor4(shape(l.parameters.b, 4),
                           LAMBDA u, v, w, o :
                               @.b[u][v][w][o]
                                 + Sigma(dz[1], LAMBDA e :
                                     Sigma(dz[2], LAMBDA i :
                                       Sigma(dz[3], LAMBDA j : dZ[e][i][j][o]))))]]

\* ------------------------------------ TorchConv2DLayer (torch_models.py)
\* np.moveaxis(X, [0, 1, 2, 3], [0, -2, -1, -3]): (N, H, W, C) -> (N, C, H, W)
moveaxis_NHWC_to_NCHW(X) ==
    LET d == shape(X, 4)
    IN Tensor4(<<d[1], d[4], d[2], d[3]>>, LAMBDA e, ch, r, c : X[e][r][c][ch])

\* faulty variant: the tensor is handed back in the layout of torch
moveaxis_NCHW_to_NHWC_Kept(X) == X

\* np.moveaxis(X, [0, 1, 2, 3], [0, -1, -3, -2]): (N, C, H, W) -> (N, H, W, C)
moveaxis_NCHW_to_NHWC(X) ==
    LET d == shape(X, 4)
    IN Tensor4(<<d[1], d[3], d[4], d[2]>>, LAMBDA e, r, c, ch : X[e][ch][r][c])

\* np.moveaxis(W, [0, 1, 2, 3], [-2, -1, -3, -4]):
\* (f[0], f[1], n_in, n_out) -> (n_out, n_in, f[0], f[1])
moveaxis_W_to_torch(W) ==
    LET d == shape(W, 4)
    IN Tensor4(<<d[4], d[3], d[1], d[2]>>, LAMBDA o, ch, a, c : W[a][c][ch][o])

\* np.moveaxis(W, [0, 1, 2, 3], [-1, -2, -4, -3]):
\* (n_out, n_in, f[0], f[1]) -> (f[0], f[1], n_in, n_out)
moveaxis_W_from_torch(W) ==
    LET d == shape(W, 4)
    IN Tensor4(<<d[3], d[4], d[2], d[1]>>, LAMBDA a, c, ch, o : W[o][ch][a][c])

TorchConv2DLayer_init(act_fn, params, hparams) ==
    [act_fn |-> act_fn,
     weight |-> moveaxis_W_to_torch(params.W),
     bias |-> [o \in 1..Len(params.b[1][1][1]) |-> params.b[1][1][1][o]],
     kernel_size |-> hparams.kernel_shape,
     padding |-> hparams.pad,
     stride |-> hparams.stride]

\* the offsets from `at` on at which a window of `kernel` entries, moved by
\* `stride`, lies within an axis of `size` entries
RECURSIVE Windows(_, _, _, _)
Windows(size, kernel, stride, at) ==
    IF at + kernel > size THEN <<>>
    ELSE <<at>> \o Windows(size, kernel, stride, at + stride)

\* the windows nn.Conv2d visits along the rows (axis 3) and the columns
\* (axis 4) of an input of shape d
TorchConv2DLayer_windows(m, d, axis) ==
    Windows(d[axis] + 2 * m.padding, m.kernel_size[axis - 2], m.stride, 0)

\* nn.Conv2d on (N, C, H, W): one output position per window over the
\* implicitly zero-padded input
TorchConv2DLayer_layer1(m, X) ==
    LET d == shape(X, 4)
        p == m.padding
        wr == TorchConv2DLayer_windows(m, d, 3)
        wc == TorchConv2DLayer_windows(m, d, 4)
    IN Tensor4(<<d[1], Len(m.weight), Len(wr), Len(wc)>>,
               LAMBDA e, o, i, j :
                   m.bias[o]
                     + Sigma(d[2], LAMBDA ch :
                         Sigma(m.kernel_size[1], LAMBDA a :
                           Sigma(m.kernel_size[2], LAMBDA c :
                             IF /\ wr[i] + a - p \in 1..d[3]
                                /\ wc[j] + c - p \in 1..d[4]
                             THEN X[e][ch][wr[i] + a - p][wc[j] + c - p]
                                    * m.weight[o][ch][a][c]
                             ELSE 0))))

\* self.Y = self.act_fn(self.Z)
TorchConv2DLayer_forward(m, X) ==
    LET Z == TorchConv2DLayer_layer1(m, moveaxis_NHWC_to_NCHW(X))
    IN Tensor4(shape(Z, 4), LAMBDA e, o, i, j : Act_fn(m.act_fn, Z[e][o][i][j]))

\* loss = Y.sum() ; loss.backward(): Z.grad
TorchConv2DLayer_Z_grad(m, X) ==
    LET Z == TorchConv2DLayer_layer1(m, moveaxis_NHWC_to_NCHW(X))
    IN Tensor4(shape(Z, 4), LAMBDA e, o, i, j : Act_grad(m.act_fn, Z[e][o][i][j]))

\* X.grad, of the shape of self.X
TorchConv2DLayer_X_grad(m, X) ==
    LET d == shape(moveaxis_NHWC_to_NCHW(X), 4)
        p == m.padding
        wr == TorchConv2DLayer_windows(m, d, 3)
        wc == TorchConv2DLayer_windows(m, d, 4)
        dZ == TorchConv2DLayer_Z_grad(m, X)
    IN Tensor4(d,
               LAMBDA e, ch, r, c :
                   Sigma(Len(m.weight), LAMBDA o :
                     Sigma(Len(wr), LAMBDA i :
                       Sigma(Len(wc), LAMBDA j :
                         IF /\ r + p - wr[i] \in 1..m.kernel_size[1]
                            /\ c + p - wc[j] \in 1..m.kernel_size[2]
                         THEN dZ[e][o][i][j]
                                * m.weight[o][ch][r + p - wr[i]][c + p - wc[j]]
                         ELSE 0))))

\* layer1.weight.grad, of the shape of the weight
TorchConv2DLayer_weight_grad(m, X) ==
    LET d == shape(moveaxis_NHWC_to_NCHW(X), 4)
        p == m.padding
        wr == TorchConv2DLayer_windows(m, d, 3)
        wc == TorchConv2DLayer_windows(m, d, 4)
        dZ == TorchConv2DLayer_Z_grad(m, X)
    IN Tensor4(shape(m.weight, 4),
               LAMBDA o, ch, a, c :
                   Sigma(d[1], LAMBDA e :
                     Sigma(Len(wr), LAMBDA i :
                       Sigma(Len(wc), LAMBDA j :
                         IF /\ wr[i] + a - p \in 1..d[3]
                            /\ wc[j] + c - p \in 1..d[4]
                         THEN X[e][wr[i] + a - p][wc[j] + c - p][ch]
                                * dZ[e][o][i][j]
                         ELSE 0))))

\* layer1.bias.grad
TorchConv2DLayer_bias_grad(m, X) ==
    LET dZ == TorchConv2DLayer_Z_grad(m, X)
        d == shape(dZ, 4)
    IN [o \in 1..Len(m.bias) |->
           Sigma(d[1], LAMBDA e :
             Sigma(d[3], LAMBDA i : Sigma(d[4], LAMBDA j : dZ[e][o][i][j])))]

\* grads[label] of extract_grads
TorchConv2DLayer_extract_grads(m, X, label) ==
    CASE label = "X" -> moveaxis_NCHW_to_NHWC(moveaxis_NHWC_to_NCHW(X))
      [] label = "W" -> moveaxis_W_from_torch(m.weight)
      [] label = "b" -> << << <<m.bias>> >> >>
      [] label = "y" -> moveaxis_NCHW_to_NHWC(TorchConv2DLayer_forward(m, X))
      [] label = "dLdZ" -> moveaxis_NCHW_to_NHWC(TorchConv2DLayer_Z_grad(m, X))
      [] label = "dLdW" -> moveaxis_W_from_torch(TorchConv2DLayer_weight_grad(m, X))
      [] label = "dLdB" -> << << <<TorchConv2DLayer_bias_grad(m, X)>> >> >>
      [] label = "dLdX" -> moveaxis_NCHW_to_NHWC(TorchConv2DLayer_X_grad(m, X))

\* ------------------------------------------------------ Pool2D (layers.py)
\* in mode "average" the entries of Y and of dLdX are held in units of
\* 1 / (kernel rows * kernel cols), so that they stay integers
Pool2D_init(in_ch, kernel_shape, pad, stride, mode) ==
    [trainable |-> TRUE,
     parameters |-> <<>>,
     gradients |-> <<>>,
     hyperparameters |-> [layer |-> "Pool2D", pad |-> pad, stride |-> stride,
                          kernel_shape |-> kernel_shape, in_ch |-> in_ch,
                          mode |-> mode],
     derived_variables |-> [out_rows |-> 0, out_cols |-> 0],
     X |-> <<>>]

\* the largest entry of the receptive field of output position (i, j)
Pool2D_max(l, Xp, e, i, j, ch) ==
    LET hp == l.hyperparameters
        field == {Xp[e][(i - 1) * hp.stride + a][(j - 1) * hp.stride + c][ch] :
                     a \in 1..hp.kernel_shape[1], c \in 1..hp.kernel_shape[2]}
    IN CHOOSE v \in field : \A w \in field : w <= v

\* the first position, row by row, of the receptive field that holds it
Pool2D_argmax(l, Xp, e, i, j, ch) ==
    LET hp == l.hyperparameters
        v == Pool2D_max(l, Xp, e, i, j, ch)
        at(a, c) == Xp[e][(i - 1) * hp.stride + a][(j - 1) * hp.stride + c][ch]
        hits == {ac \in (1..hp.kernel_shape[1]) \X (1..hp.kernel_shape[2]) :
                    at(ac[1], ac[2]) = v}
        first == CHOOSE ac \in hits :
                    \A bd \in hits : ac[1] < bd[1] \/ (ac[1] = bd[1] /\ ac[2] <= bd[2])
    IN <<(i - 1) * hp.stride + first[1], (j - 1) * hp.stride + first[2]>>

\* forward reduces each receptive field of the padded input to a scalar
Pool2D_forward_ret(l, X) ==
    LET hp == l.hyperparameters
        s == hp.stride
        Xp == pad2D(X, hp.pad)
        out_rows == Conv2D_out_dim(Len(X[1]), hp.pad, hp.kernel_shape[1], s)
        out_cols == Conv2D_out_dim(Len(X[1][1]), hp.pad, hp.kernel_shape[2], s)
    IN Tensor4(<<Len(X), out_rows, out_cols, Len(X[1][1][1])>>,
               LAMBDA e, i, j, ch :
                   IF hp.mode = "max" THEN Pool2D_max(l, Xp, e, i, j, ch)
                   ELSE Sigma(hp.kernel_shape[1], LAMBDA a :
                          Sigma(hp.kernel_shape[2], LAMBDA c :
                            Xp[e][(i - 1) * s + a][(j - 1) * s + c][ch])))

Pool2D_forward(l, X) ==
    LET Y == Pool2D_forward_ret(l, X)
    IN [l EXCEPT !.X = X,
                 !.derived_variables =
                     [out_rows |-> Len(Y[1]), out_cols |-> Len(Y[1][1])]]

\* backward routes dLdY back to the source positions of the padded input,
\* for "max" to the argmax only, for "average" uniformly over the field,
\* then strips the padding
Pool2D_backward_ret(l, dLdY) ==
    LET hp == l.hyperparameters
        s == hp.stride
        Xp == pad2D(l.X, hp.pad)
        dy == shape(dLdY, 4)
        dXp == Tensor4(shape(Xp, 4),
                   LAMBDA e, r, c, ch :
                       Sigma(dy[2], LAMBDA i :
                         Sigma(dy[3], LAMBDA j :
                           IF hp.mode = "max"
                           THEN IF Pool2D_argmax(l, Xp, e, i, j, ch) = <<r, c>>
                                THEN dLdY[e][i][j][ch] ELSE 0
                           ELSE IF /\ r - (i - 1) * s \in 1..hp.kernel_shape[1]
                                   /\ c - (j - 1) * s \in 1..hp.kernel_shape[2]
                                THEN dLdY[e][i][j][ch] ELSE 0)))
    IN unpad2D(dXp, hp.pad)

\* a layer without parameters: backward leaves the layer as it is
Pool2D_backward(l, dLdY) == l

\* ------------------------------------ TorchPool2DLayer (torch_models.py)
TorchPool2DLayer_init(hparams) ==
    [mode |-> hparams.mode, kernel_size |-> hparams.kernel_shape,
     padding |-> hparams.pad, stride |-> hparams.stride]

\* nn.AvgPool2d on (N, C, H, W), padding counted in the average; entries in
\* units of 1 / (kernel rows * kernel cols)
TorchPool2DLayer_layer1(m, X) ==
    LET d == shape(X, 4)
        p == m.padding
        wr == Windows(d[3] + 2 * p, m.kernel_size[1], m.stride, 0)
        wc == Windows(d[4] + 2 * p, m.kernel_size[2], m.stride, 0)
    IN Tensor4(<<d[1], d[2], Len(wr), Len(wc)>>,
               LAMBDA e, ch, i, j :
                   Sigma(m.kernel_size[1], LAMBDA a :
                     Sigma(m.kernel_size[2], LAMBDA c :
                       IF /\ wr[i] + a - p \in 1..d[3]
                          /\ wc[j] + c - p \in 1..d[4]
                       THEN X[e][ch][wr[i] + a - p][wc[j] + c - p]
                       ELSE 0)))

TorchPool2DLayer_forward(m, X) ==
    TorchPool2DLayer_layer1(m, moveaxis_NHWC_to_NCHW(X))

\* faulty variant: every input position takes the gradient of one window
TorchPool2DLayer_X_grad_OneWindow(m, X) ==
    LET d == shape(moveaxis_NHWC_to_NCHW(X), 4)
    IN Tensor4(d, LAMBDA e, ch, r, c : 1)

\* loss = Y.sum() ; loss.backward(): X.grad, of the shape of X
TorchPool2DLayer_X_grad(m, X) ==
    LET d == shape(moveaxis_NHWC_to_NCHW(X), 4)
        p == m.padding
        wr == Windows(d[3] + 2 * p, m.kernel_size[1], m.stride, 0)
        wc == Windows(d[4] + 2 * p, m.kernel_size[2], m.stride, 0)
    IN Tensor4(d,
               LAMBDA e, ch, r, c :
                   Sigma(Len(wr), LAMBDA i :
                     Sigma(Len(wc), LAMBDA j :
                       IF /\ r + p - wr[i] \in 1..m.kernel_size[1]
                          /\ c + p - wc[j] \in 1..m.kernel_size[2]
                       THEN 1 ELSE 0)))

\* grads[label] of extract_grads
TorchPool2DLayer_extract_grads(m, X, label) ==
    CASE label = "X" -> moveaxis_NCHW_to_NHWC(moveaxis_NHWC_to_NCHW(X))
      [] label = "y" -> moveaxis_NCHW_to_NHWC(TorchPool2DLayer_forward(m, X))
      [] label = "dLdX" -> moveaxis_NCHW_to_NHWC(TorchPool2DLayer_X_grad(m, X))

\* ---------------------------------------------- FullyConnected (layers.py)
\* W has shape (n_in, n_out), b (1, n_out), X (n_ex, n_in)
FullyConnected_init(n_in, n_out, act_fn, W, b) ==
    [trainable |-> TRUE,
     parameters |-> [W |-> W, b |-> b],
     gradients |-> [W |-> Tensor2(shape(W, 2), LAMBDA i, j : 0),
                    b |-> Tensor2(shape(b, 2), LAMBDA i, j : 0)],
     hyperparameters |-> [layer |-> "FullyConnected", n_in |-> n_in,
                          n_out |-> n_out, act_fn |-> act_fn],
     derived_variables |-> [Z |-> <<>>],
     X |-> <<>>]

\* Z = X.W + b
FullyConnected_Z(l, X) ==
    Tensor2(<<Len(X), l.hyperparameters.n_out>>,
            LAMBDA e, o :
                l.parameters.b[1][o]
                  + Sigma(l.hyperparameters.n_in,
                          LAMBDA i : X[e][i] * l.parameters.W[i][o]))

FullyConnected_forward(l, X) ==
    [l EXCEPT !.X = X, !.derived_variables = [Z |-> FullyConnected_Z(l, X)]]

FullyConnected_forward_ret(l, X) ==
    LET Z == FullyConnected_Z(l, X)
    IN Tensor2(shape(Z, 2),
               LAMBDA e, o : Act_fn(l.hyperparameters.act_fn, Z[e][o]))

\* dLdZ = dLdY . act_fn.grad(Z)
FullyConnected_dZ(l, dLdY) ==
    LET Z == l.derived_variables.Z
    IN Tensor2(shape(Z, 2),
               LAMBDA e, o :
                   dLdY[e][o] * Act_grad(l.hyperparameters.act_fn, Z[e][o]))

\* dLdX = dLdZ.W^T
FullyConnected_backward_ret(l, dLdY) ==
    LET dZ == FullyConnected_dZ(l, dLdY)
    IN Tensor2(<<Len(dZ), Len(l.parameters.W)>>,
               LAMBDA e, i :
                   Sigma(Len(dZ[1]), LAMBDA o : dZ[e][o] * l.parameters.W[i][o]))

\* dLdW = X^T.dLdZ ; dLdb = column-sum(dLdZ)
FullyConnected_backward(l, dLdY) ==
    LET dZ == FullyConnected_dZ(l, dLdY)
    IN [l EXCEPT !.gradients =
            [Y |-> dLdY,
             Z |-> dZ,
             W |-> Tensor2(shape(l.parameters.W, 2),
                           LAMBDA i, o :
                               Sigma(Len(dZ), LAMBDA e : l.X[e][i] * dZ[e][o])),
             b |-> Tensor2(shape(l.parameters.b, 2),
                           LAMBDA u, o : Sigma(Len(dZ), LAMBDA e : dZ[e][o]))]]

\* ----------------------------------------- TorchFCLayer (torch_models.py)
\* params["W"].T
np_T(W) == Tensor2(<<Len(W[1]), Len(W)>>, LAMBDA i, j : W[j][i])

TorchFCLayer_init(act_fn, params) ==
    [act_fn |-> act_fn, weight |-> np_T(params.W), bias |-> params.b]

\* nn.Linear: X.weight^T + bias, the bias of shape (1, n_hid) broadcast
TorchFCLayer_layer1(m, X) ==
    Tensor2(<<Len(X), Len(m.weight)>>,
            LAMBDA e, o :
                m.bias[1][o]
                  + Sigma(Len(m.weight[1]), LAMBDA i : X[e][i] * m.weight[o][i]))

\* self.out1 = self.act_fn(self.z1)
TorchFCLayer_forward(m, X) ==
    LET z1 == TorchFCLayer_layer1(m, X)
    IN Tensor2(shape(z1, 2), LAMBDA e, o : Act_fn(m.act_fn, z1[e][o]))

\* loss1 = out1.sum() ; loss1.backward(): z1.grad
TorchFCLayer_z1_grad(m, X) ==
    LET z1 == TorchFCLayer_layer1(m, X)
    IN Tensor2(shape(z1, 2), LAMBDA e, o : Act_grad(m.act_fn, z1[e][o]))

\* grads[label] of extract_grads
TorchFCLayer_extract_grads(m, X, label) ==
    LET dZ == TorchFCLayer_z1_grad(m, X)
    IN CASE label = "X" -> X
         [] label = "b" -> m.bias
         [] label = "W" -> m.weight
         [] label = "y" -> TorchFCLayer_forward(m, X)
         [] label = "dLdy" -> ones_like2(dZ)
         [] label = "dLdZ" -> dZ
         [] label = "dLdB" ->
                Tensor2(shape(m.bias, 2),
                        LAMBDA u, o : Sigma(Len(X), LAMBDA e : dZ[e][o]))
         [] label = "dLdW" ->
                Tensor2(shape(m.weight, 2),
                        LAMBDA o, i : Sigma(Len(X), LAMBDA e : dZ[e][o] * X[e][i]))
         [] label = "dLdX" ->
                Tensor2(shape(X, 2),
                        LAMBDA e, i :
                            Sigma(Len(m.weight), LAMBDA o : dZ[e][o] * m.weight[o][i]))

\* ------------------- test_Conv2D, test_Pool2D, test_FullyConnected (tests.py)
\* min(in_rows, np.random.randint(1, 5)): a kernel has at most MaxKernel
\* rows and never more than the input
MaxKernel == 4

min(a, b) == IF a <= b THEN a ELSE b
max(a, b) == IF a >= b THEN a ELSE b

\* int(num / den) of python for den > 0: the quotient cut towards zero
py_int(num, den) == IF num >= 0 THEN num \div den ELSE -((-num) \div den)

\* faulty variant: the padding is left out of the size
out_dim_Unpadded(in, p, f, s) == py_int(s + (in - f), s)

\* out_rows = int(1 + (in_rows + 2 * p - f_shape[0]) / s), the sum taken
\* over the common denominator s
out_dim(in, p, f, s) == py_int(s + (in + 2 * p - f), s)

\* the draws of a trial
NExIn == {1, NEx}
ChannelsIn == {<<1, 2>>, <<2, 1>>}
StrideIn == 1..2
ColsIn == {1, MaxIn}
SeedIn == {0, 1}
f_shapes(in_rows, in_cols) ==
    (1..min(in_rows, MaxKernel)) \X (1..min(in_cols, MaxKernel))

\* p = np.random.randint(0, max(1, min(f_shape) // 2)) of test_Pool2D
PoolPads(f_shape) == 0..(max(1, min(f_shape[1], f_shape[2]) \div 2) - 1)

\* random_tensor(shape): a tensor with entries -1, 0, 1 that differ along
\* every axis
random_tensor4(d) ==
    Tensor4(d, LAMBDA i, j, k, l : ((i + 2 * j + k + l) % 3) - 1)
random_tensor2(d, seed) ==
    Tensor2(d, LAMBDA i, j : ((i + 2 * j + seed) % 3) - 1)

\* the weights a layer is constructed with: W mixed in sign, b zero
W_init4(d) ==
    Tensor4(d, LAMBDA i, j, k, l : IF (i + j + k + l) % 2 = 0 THEN 1 ELSE -1)
W_init2(d) == Tensor2(d, LAMBDA i, j : IF (i + j) % 3 = 0 THEN -1 ELSE 1)

\* the record of a trial after the call `op`
TrialRec(op, X, out_rows, out_cols, y_pred, ret) ==
    [op |-> op, outcome |-> "ok", X |-> X, out_rows |-> out_rows,
     out_cols |-> out_cols, y_pred |-> y_pred, ret |-> ret]

LayerKind(l) == l.hyperparameters.layer

InitConv2D ==
    \E n_ex \in NExIn, in_rows \in 1..MaxIn, in_cols \in ColsIn,
       n \in ChannelsIn, p \in 0..MaxPad, s \in StrideIn, act_fn \in Acts :
        \E f_shape \in f_shapes(in_rows, in_cols) :
            /\ layer = Conv2D_init(n[1], n[2], f_shape, act_fn, p, s,
                                   W_init4(<<f_shape[1], f_shape[2], n[1], n[2]>>),
                                   Tensor4(<<1, 1, 1, n[2]>>, LAMBDA i, j, k, l : 0))
            /\ last = TrialRec("init",
                               random_tensor4(<<n_ex, in_rows, in_cols, n[1]>>),
                               out_dim(in_rows, p, f_shape[1], s),
                               out_dim(in_cols, p, f_shape[2], s), <<>>, <<>>)

InitPool2D ==
    \E n_ex \in NExIn, in_rows \in 1..MaxIn, in_cols \in ColsIn,
       n_in \in 1..2, s \in StrideIn, mode \in {"max", "average"} :
        \E f_shape \in f_shapes(in_rows, in_cols) :
            \E p \in PoolPads(f_shape) :
                /\ layer = Pool2D_init(n_in, f_shape, p, s, mode)
                /\ last = TrialRec("init",
                                   random_tensor4(<<n_ex, in_rows, in_cols, n_in>>),
                                   out_dim(in_rows, p, f_shape[1], s),
                                   out_dim(in_cols, p, f_shape[2], s), <<>>, <<>>)

InitFullyConnected ==
    \E n_ex \in NExIn, n_in \in 1..MaxIn, n_out \in 1..MaxIn, act_fn \in Acts,
       seed \in SeedIn :
        /\ layer = FullyConnected_init(n_in, n_out, act_fn, W_init2(<<n_in, n_out>>),
                                       Tensor2(<<1, n_out>>, LAMBDA i, j : 0))
        /\ last = TrialRec("init", random_tensor2(<<n_ex, n_in>>, seed),
                           0, 0, <<>>, <<>>)

InitLayers ==
    /\ wrappers = <<>>
    /\ (InitConv2D \/ InitPool2D \/ InitFullyConnected)

\* y_pred = L1.forward(X)
test_Conv2D_forward ==
    /\ LayerKind(layer) = "Conv2D" /\ last.op = "init"
    /\ layer' = Conv2D_forward(layer, last.X)
    /\ LET y_pred == Conv2D_forward_ret(layer, last.X)
       IN last' = TrialRec("forward", last.X, last.out_rows, last.out_cols,
                           y_pred, y_pred)
    /\ UNCHANGED wrappers

\* dLdy = np.ones_like(y_pred) ; dLdX = L1.backward(dLdy)
test_Conv2D_backward ==
    /\ LayerKind(layer) = "Conv2D" /\ last.op = "forward"
    /\ LET dLdy == ones_like4(last.y_pred)
       IN /\ layer' = Conv2D_backward(layer, dLdy)
          /\ last' = TrialRec("backward", last.X, last.out_rows, last.out_cols,
                              last.y_pred, Conv2D_backward_ret(layer, dLdy))
    /\ UNCHANGED wrappers

test_Pool2D_forward ==
    /\ LayerKind(layer) = "Pool2D" /\ last.op = "init"
    /\ layer' = Pool2D_forward(layer, last.X)
    /\ LET y_pred == Pool2D_forward_ret(layer, last.X)
       IN last' = TrialRec("forward", last.X, last.out_rows, last.out_cols,
                           y_pred, y_pred)
    /\ UNCHANGED wrappers

test_Pool2D_backward ==
    /\ LayerKind(layer) = "Pool2D" /\ last.op = "forward"
    /\ LET dLdy == ones_like4(last.y_pred)
       IN /\ layer' = Pool2D_backward(layer, dLdy)
          /\ last' = TrialRec("backward", last.X, last.out_rows, last.out_cols,
                              last.y_pred, Pool2D_backward_ret(layer, dLdy))
    /\ UNCHANGED wrappers

test_FullyConnected_forward ==
    /\ LayerKind(layer) = "FullyConnected" /\ last.op = "init"
    /\ layer' = FullyConnected_forward(layer, last.X)
    /\ LET y_pred == FullyConnected_forward_ret(layer, last.X)
       IN last' = TrialRec("forward", last.X, 0, 0, y_pred, y_pred)
    /\ UNCHANGED wrappers

test_FullyConnected_backward ==
    /\ LayerKind(layer) = "FullyConnected" /\ last.op = "forward"
    /\ LET dLdy == ones_like2(last.y_pred)
       IN /\ layer' = FullyConnected_backward(layer, dLdy)
          /\ last' = TrialRec("backward", last.X, 0, 0, last.y_pred,
                              FullyConnected_backward_ret(layer, dLdy))
    /\ UNCHANGED wrappers

\* a dLdy whose entries differ between the output positions
dLdY_weighted(y_pred) ==
    Tensor4(shape(y_pred, 4), LAMBDA e, i, j, ch : i + 2 * j + ch - 3)

\* dLdX = L1.backward(dLdy) of an average pool with such a dLdy
Pool2D_backward_weighted ==
    /\ LayerKind(layer) = "Pool2D" /\ last.op = "forward"
    /\ layer.hyperparameters.mode = "average"
    /\ LET dLdy == dLdY_weighted(last.y_pred)
       IN /\ layer' = Pool2D_backward(layer, dLdy)
          /\ last' = TrialRec("backward_weighted", last.X, last.out_rows,
                              last.out_cols, last.y_pred,
                              Pool2D_backward_ret(layer, dLdy))
    /\ UNCHANGED wrappers

NextLayers ==
    \/ test_Conv2D_forward
    \/ test_Conv2D_backward
    \/ test_Pool2D_forward
    \/ test_Pool2D_backward
    \/ Pool2D_backward_weighted
    \/ test_FullyConnected_forward
    \/ test_FullyConnected_backward

SpecLayers == InitLayers /\ [][NextLayers]_vars

\* golds[label] of golds = gold_mod.extract_grads(X) for the layer of the trial
LayerGold(label) ==
    CASE LayerKind(layer) = "Conv2D" ->
            TorchConv2DLayer_extract_grads(
                TorchConv2DLayer_init(layer.hyperparameters.act_fn,
                                      layer.parameters, layer.hyperparameters),
                last.X, label)
      [] LayerKind(layer) = "Pool2D" ->
            TorchPool2DLayer_extract_grads(
                TorchPool2DLayer_init(layer.hyperparameters), last.X, label)
      [] LayerKind(layer) = "FullyConnected" ->
            TorchFCLayer_extract_grads(
                TorchFCLayer_init(layer.hyperparameters.act_fn, layer.parameters),
                last.X, label)

\* the test compares with the reference; test_Pool2D draws mode "average" only
HasGold == LayerKind(layer) = "Pool2D" => layer.hyperparameters.mode = "average"

\* the rank of the layer's input
XRank == IF LayerKind(layer) = "FullyConnected" THEN 2 ELSE 4

PoolWindows(k) ==
    Windows(Len(IF k = 1 THEN last.X[1] ELSE last.X[1][1])
                + 2 * layer.hyperparameters.pad,
            layer.hyperparameters.kernel_shape[k], layer.hyperparameters.stride, 0)

\* window number i of ws covers position r of the unpadded axis
Covers(ws, i, k, r) ==
    r + layer.hyperparameters.pad - ws[i] \in 1..layer.hyperparameters.kernel_shape[k]

\* the dLdy of the backward call made last
LastdLdY ==
    IF last.op = "backward" THEN ones_like4(last.y_pred)
    ELSE dLdY_weighted(last.y_pred)

Raised == <<>>

calc_pad_dims_axis(in, out, f, s) ==
    LET p == py_int(s * (out - 1) + f - in, 2)
        out1 == py_int(s + (in + 2 * p - f), s)
    IN IF out1 # out /\ out1 # out - 1 THEN Raised
       ELSE IF p < 0 THEN Raised
       ELSE IF out1 = out - 1 THEN <<p, p + 1>> ELSE <<p, p>>

IsRaised(r) == r = Raised

\* (top, bottom, left, right)
calc_pad_dims(X_shape, out_dims, kernel_shape, stride) ==
    LET r == calc_pad_dims_axis(X_shape[2], out_dims[1], kernel_shape[1], stride)
        c == calc_pad_dims_axis(X_shape[3], out_dims[2], kernel_shape[2], stride)
    IN IF IsRaised(r) THEN r ELSE IF IsRaised(c) THEN c ELSE r \o c

\* ----------------------- SkipConnectionConvModule.forward (modules.py)
\* the output size of conv1 then conv2 under the symmetric pads (rows,
\* cols) the module was given, and from it the padding the skip convolution
\* needs to arrive at the same size
SkipConv_out_dims(X_shape, t) ==
    LET o1 == <<Conv2D_out_dim(X_shape[2], t.p1[1], t.f_shape1[1], t.s1),
                Conv2D_out_dim(X_shape[3], t.p1[2], t.f_shape1[2], t.s1)>>
    IN <<Conv2D_out_dim(o1[1], t.p2[1], t.f_shape2[1], t.s2),
         Conv2D_out_dim(o1[2], t.p2[2], t.f_shape2[2], t.s2)>>

SkipConv_pad_skip(X_shape, t) ==
    LET o2 == SkipConv_out_dims(X_shape, t)
    IN IF o2[1] < 1 \/ o2[2] < 1 THEN Raised
       ELSE calc_pad_dims(X_shape, o2, t.f_shape_skip, t.s_skip)

\* ------- test_SkipConnectionIdentityModule, test_SkipConnectionConvModule
\* faulty variant: only the rows are looked at
Asymmetric_RowsOnly(p) == p[1] # p[2]

\* p[0] != p[1] or p[2] != p[3]
Asymmetric(p) == p[1] # p[2] \/ p[3] # p[4]

\* the draws of a trial: np.random.randint(1, 5) for a stride, kernels of
\* at most MaxKernel entries and never more than the input
SkipStrideIn == 1..2
SquareKernels(n) == {<<f, f>> : f \in 1..min(n, MaxKernel)}
SquarePads == {<<p, p>> : p \in 1..MaxPad}

IdentityDraws ==
    {[test |-> "Identity", X_shape |-> <<NEx, n, n, 2>>, f_shape1 |-> f1,
      f_shape2 |-> f2, s1 |-> s1, s2 |-> s2] :
        n \in 2..MaxIn, f1 \in (1..MaxIn) \X (1..MaxIn),
        f2 \in (1..MaxIn) \X (1..MaxIn), s1 \in SkipStrideIn, s2 \in SkipStrideIn}

ConvDraws ==
    {[test |-> "Conv", X_shape |-> <<NEx, n, n, 2>>, f_shape1 |-> f1,
      f_shape2 |-> f2, f_shape_skip |-> fs, s1 |-> s1, s2 |-> s2,
      s_skip |-> ss, p1 |-> p1, p2 |-> p2] :
        n \in 2..MaxIn, f1 \in SquareKernels(MaxIn), f2 \in SquareKernels(MaxIn),
        fs \in (1..MaxIn) \X (1..MaxIn), s1 \in SkipStrideIn, s2 \in SkipStrideIn,
        ss \in SkipStrideIn, p1 \in SquarePads, p2 \in SquarePads}

\* min(in_rows, ...): no kernel is larger than the input
FitsInput(t) ==
    \A k \in {"f_shape1", "f_shape2", "f_shape_skip"} \cap DOMAIN t :
        t[k][1] <= t.X_shape[2] /\ t[k][2] <= t.X_shape[3]

PadTrials == {t \in IdentityDraws \cup ConvDraws : FitsInput(t)}

\* the record of a trial: `at` the place the loop is at, `yielded` the
\* paddings the helper has yielded so far, and how many forward, backward
\* and extract_grads calls the trial has made
PadRec(t, at, yielded, forwards, backwards, compares) ==
    [t |-> t, at |-> at, yielded |-> yielded, forwards |-> forwards,
     backwards |-> backwards, compares |-> compares]

NoModule == [constructed |-> FALSE]

\* the top of `while True`, nothing drawn yet
NoTrial == [test |-> "none"]

InitPadding ==
    /\ layer = NoModule
    /\ wrappers = <<>>
    /\ last = PadRec(NoTrial, "top", <<>>, 0, 0, 0)

\* the draws at the head of the loop body
draw_trial ==
    /\ last.at = "top"
    /\ \E t \in PadTrials : last' = PadRec(t, "drawn", <<>>, 0, 0, 0)
    /\ UNCHANGED <<layer, wrappers>>

\* p1 = calc_pad_dims(X.shape, X.shape[1:3], f_shape1, s1) ; if asymmetric:
\* continue
identity_p1 ==
    /\ last.t.test = "Identity" /\ last.at = "drawn"
    /\ LET t == last.t
           p1 == calc_pad_dims(t.X_shape, <<t.X_shape[2], t.X_shape[3]>>,
                               t.f_shape1, t.s1)
       IN last' = [last EXCEPT !.yielded = Append(@, p1),
                               !.at = IF IsRaised(p1) THEN "raised"
                                      ELSE IF Asymmetric(p1) THEN "continue"
                                      ELSE "p1"]
    /\ UNCHANGED <<layer, wrappers>>

\* p2 = calc_pad_dims(X.shape, X.shape[1:3], f_shape2, s2) ; if asymmetric:
\* continue
identity_p2 ==
    /\ last.t.test = "Identity" /\ last.at = "p1"
    /\ LET t == last.t
           p2 == calc_pad_dims(t.X_shape, <<t.X_shape[2], t.X_shape[3]>>,
                               t.f_shape2, t.s2)
       IN last' = [last EXCEPT !.yielded = Append(@, p2),
                               !.at = IF IsRaised(p2) THEN "raised"
                                      ELSE IF Asymmetric(p2) THEN "continue"
                                      ELSE "p2"]
    /\ UNCHANGED <<layer, wrappers>>

\* p1 = (p1[0], p1[2]) ; p2 = (p2[0], p2[2]) ; L1 = ... ; y_pred = L1.forward(X)
identity_forward ==
    /\ last.t.test = "Identity" /\ last.at = "p2"
    /\ layer' = [constructed |-> TRUE,
                 p1 |-> <<last.yielded[1][1], last.yielded[1][3]>>,
                 p2 |-> <<last.yielded[2][1], last.yielded[2][3]>>]
    /\ last' = [last EXCEPT !.at = "forward", !.forwards = @ + 1]
    /\ UNCHANGED wrappers

\* try: y_pred = L1.forward(X) except (ValueError, AssertionError): continue
conv_forward ==
    /\ last.t.test = "Conv" /\ last.at = "drawn"
    /\ LET ps == SkipConv_pad_skip(last.t.X_shape, last.t)
       IN /\ layer' = [constructed |-> TRUE, p1 |-> last.t.p1, p2 |-> last.t.p2,
                       hyperparameters |-> [pad_skip |-> ps]]
          /\ last' = [last EXCEPT !.forwards = @ + 1,
                                  !.yielded = IF IsRaised(ps) THEN @ ELSE Append(@, ps),
                                  !.at = IF IsRaised(ps) THEN "continue"
                                         ELSE "tried"]
    /\ UNCHANGED wrappers

\* ps = L1.hyperparameters["pad_skip"] ; if asymmetric: continue
conv_pad_skip ==
    /\ last.t.test = "Conv" /\ last.at = "tried"
    /\ last' = [last EXCEPT !.at = IF Asymmetric(layer.hyperparameters.pad_skip)
                                   THEN "continue" ELSE "forward"]
    /\ UNCHANGED <<layer, wrappers>>

\* dLdy = np.ones_like(y_pred) ; dLdX = L1.backward(dLdy)
skip_backward ==
    /\ last.at = "forward"
    /\ last' = [last EXCEPT !.at = "backward", !.backwards = @ + 1]
    /\ UNCHANGED <<layer, wrappers>>

\* golds = gold_mod.extract_grads(X) and the comparisons with it
skip_compare ==
    /\ last.at = "backward"
    /\ last' = [last EXCEPT !.at = "compared", !.compares = @ + 1]
    /\ UNCHANGED <<layer, wrappers>>

\* back to the top of `while True`, after a `continue` or at the end of
\* the body; the next pass draws new hyperparameters
next_trial ==
    /\ last.at \in {"continue", "compared"}
    /\ layer' = NoModule
    /\ last' = PadRec(NoTrial, "top", <<>>, 0, 0, 0)
    /\ UNCHANGED wrappers

NextPadding ==
    \/ draw_trial
    \/ identity_p1
    \/ identity_p2
    \/ identity_forward
    \/ conv_forward
    \/ conv_pad_skip
    \/ skip_backward
    \/ skip_compare
    \/ next_trial

SpecPadding == InitPadding /\ [][NextPadding]_vars

\* C22: a configuration for which the helper yields top # bottom or
\* left # right (for conv1 or conv2 in the identity test, for the skip
\* convolution in the conv test) is rejected: once the check of that
\* padding has run the loop is at its `continue`, and no backward and no
\* comparison with the reference has been made for the configuration.
C22_AsymmetricRejected ==
    LET checked == IF last.at = "tried" THEN <<>> ELSE last.yielded
    IN (\E k \in DOMAIN checked :
            checked[k][1] # checked[k][2] \/ checked[k][3] # checked[k][4])
          => /\ last.at = "continue"
             /\ last.backwards = 0
             /\ last.compares = 0

\* the skip convolution's padding came out asymmetric along the columns
\* only, after a forward, and the trial was rejected
C22_Witness ==
    /\ last.t.test = "Conv"
    /\ last.at = "continue"
    /\ last.forwards = 1
    /\ Len(last.yielded) = 1
    /\ last.yielded[1][1] = last.yielded[1][2]
    /\ last.yielded[1][3] # last.yielded[1][4]

\* ================================== Dropout over the whole range of p
\* The Dropout wrapper with drop probabilities 0, 0.5 and 1 and an input
\* whose entries differ, under the calls that bear on the mask: attach,
\* forward, _set_wrapper_params, freeze through the wrapper and unfreeze on
\* the layer.
PDropIn == {0, 50, 100}
XDropIn == {Ones, [i \in Ix |-> 2 * i]}

NextDropout ==
    \/ \E o \in {0} \cup WIds, p \in PDropIn : Dropout_init(o, p)
    \/ \E w \in WIds, X \in XDropIn, rand \in RIn : Dropout_forward(w, X, rand)
    \/ \E w \in WIds, pdict \in PDicts : Set_wrapper_params(w, pdict)
    \/ \E w \in WIds : WrapperBase_freeze(w)
    \/ L_unfreeze

SpecDropout == Init /\ [][NextDropout]_vars

\* C23: while the layer is trainable the tensor Dropout.forward computes
\* from X holds at every position X's entry or 0, never a rescaled entry;
\* with p = 0 it is X, with p = 1 it is all zero.
C23_MaskKeepsOrZeroes ==
    (last.op = "forward" /\ ViaWrapper(last) /\ last.wasTrainable)
        => /\ \A i \in Ix : last.masked[i] \in {last.arg[i], 0}
           /\ wrappers[last.via].p = 0 => last.masked = last.arg
           /\ wrappers[last.via].p = 100 => \A i \in Ix : last.masked[i] = 0

\* a trainable forward with p = 1 on an input without zeros
C23_Witness ==
    /\ last.op = "forward" /\ ViaWrapper(last) /\ last.wasTrainable
    /\ wrappers[last.via].p = 100
    /\ \A i \in Ix : last.arg[i] = 2 * i /\ last.masked[i] = 0

\* C24: for every Dropout wrapper the p of its descriptor in
\* hyperparameters["wrappers"], which summary() reports, is the p its
\* forward draws the mask with (self.p, wrappers.py 113), also after
\* _set_wrapper_params was given a new 'p'.
C24_DescriptorIsMaskP ==
    \A i \in DOMAIN WList(layer) :
        Deref(WList(layer)[i]).p = wrappers[WList(layer)[i].ref].p

\* C25: a call of update, flush_gradients or backward through a wrapper that
\* fails because the layer is frozen invokes no method of the layer and
\* leaves the layer (parameters, gradients, hyperparameters, cached input
\* and derived variables, trainable flag) and the wrappers as they were.
C25_FrozenCallLeavesLayer ==
    [][(/\ ViaWrapper(last')
        /\ last'.op \in {"update", "flush_gradients", "backward"}
        /\ last'.outcome = "AssertionError")
          => /\ ~layer.trainable
             /\ last'.calls = NoCalls
             /\ layer' = layer
             /\ wrappers' = wrappers]_vars

\* update through a wrapper failed on a frozen layer that holds a cached
\* input and a nonzero gradient, which the update would have consumed
C25_Witness ==
    /\ ViaWrapper(last) /\ last.op = "update" /\ last.outcome = "AssertionError"
    /\ ~layer.trainable
    /\ layer.X # NoTensor
    /\ \E k \in ParamKeys : layer.gradients[k] # 0

\* ============================================== a stack of wrappers
\* Every Dropout is built over the outermost object there is (the layer
\* itself, then the wrapper built last), so k wrappers are always a stack
\* of depth k; the layer is driven through the wrappers and directly.
NextStack ==
    \/ \E p \in PIn : Dropout_init(Len(wrappers), p)
    \/ \E w \in WIds : WrapperBase_freeze(w)
    \/ \E w \in WIds : WrapperBase_flush_gradients(w)
    \/ \E w \in WIds, lr \in LRs : WrapperBase_update(w, lr)
    \/ \E X \in XIn : L_forward(X)
    \/ \E dLdy \in DIn : L_backward(dLdy)
    \/ L_unfreeze

SpecStack == Init /\ [][NextStack]_vars

\* C26: the base layer of every wrapper of a stack is the innermost layer,
\* never a wrapper; a stack of k wrappers leaves exactly k descriptors on
\* that layer, one per wrapper; every wrapper's accessors answer with the
\* layer's own state, and freeze, flush_gradients and update through any
\* wrapper act on that layer.
C26_BaseIsInnermost ==
    /\ \A w \in WIds :
          /\ wrappers[w]._base_layer = 0
          /\ ~hasattr(wrappers[w]._base_layer, "_base_layer")
          /\ Cardinality({i \in DOMAIN WList(layer) : WList(layer)[i].ref = w}) = 1
          /\ WrapperBase_hyperparameters(w) = layer.hyperparameters
          /\ WrapperBase_parameters(w) = layer.parameters
          /\ WrapperBase_gradients(w) = layer.gradients
          /\ WrapperBase_trainable(w) = layer.trainable
    /\ Len(WList(layer)) = Len(wrappers)
    /\ (ViaWrapper(last) /\ last.outcome = "ok")
          => /\ last.op = "freeze" => ~layer.trainable
             /\ last.op \in {"flush_gradients", "update"} => ZeroGradients(layer)

\* a stack of full depth whose outermost wrapper flushed a nonzero gradient
\* of the innermost layer
C26_Witness ==
    /\ Len(wrappers) = MaxWrappers
    /\ Len(WList(layer)) = MaxWrappers
    /\ last.op = "flush_gradients" /\ last.via = MaxWrappers
    /\ last.outcome = "ok" /\ last.dirty
    /\ ZeroGradients(layer)

\* C27: a call of Dropout.forward leaves the caller's tensor X as it was
\* passed (one of the inputs, none of which holds a zero, even where the
\* masked tensor does), and changes neither the wrapper (its p, its
\* descriptor, its set of attributes: no mask is stored on it) nor the
\* hyperparameters of the wrapped layer.
C27_ForwardFrame ==
    [][(ViaWrapper(last') /\ last'.op = "forward")
          => /\ last'.arg \in XDropIn
             /\ \A i \in Ix : last'.masked[i] \in {last'.arg[i], 0}
             /\ wrappers' = wrappers
             /\ DOMAIN wrappers'[last'.via]
                   = {"_base_layer", "p", "_wrapper_hyperparameters"}
             /\ layer'.hyperparameters = layer.hyperparameters]_vars

\* a forward at p = 0.5 whose mask dropped one entry and kept another
C27_Witness ==
    /\ ViaWrapper(last) /\ last.op = "forward" /\ last.wasTrainable
    /\ wrappers[last.via].p = 50
    /\ \A i \in Ix : last.arg[i] = 2 * i
    /\ \E i, j \in Ix : last.masked[i] = 0 /\ last.masked[j] = last.arg[j]

\* ================================================ grad_check_RNN (tests.py)
\* The model handed to grad_check_RNN is a recurrent cell with n_in inputs
\* and one output: Wax holds n_in entries, Waa, bx and ba one each, every
\* parameter an array given by its entries in flat order.  In this part
\* `layer` is that model and `last` the frame of the call: the place it is
\* at, its arguments and its locals.  Values are counted in units of epsilon.
epsilon == 1

model_init(Wax, Waa, bx, ba) ==
    [parameters |-> [Wax |-> Wax, Waa |-> <<Waa>>, bx |-> <<bx>>, ba |-> <<ba>>],
     gradients |-> [Wax |-> [i \in DOMAIN Wax |-> 0], Waa |-> <<0>>,
                    bx |-> <<0>>, ba |-> <<0>>],
     X |-> <<>>,
     derived_variables |-> [A |-> <<>>]]

\* model.forward(X[:, :, t]): tanh(Wax.x_t + Waa.a_{t-1} + bx + ba)
model_forward_ret(m, Xt) ==
    tanh(Sigma(Len(m.parameters.Wax), LAMBDA i : m.parameters.Wax[i] * Xt[i])
         + m.parameters.Waa[1] * Prev(m.derived_variables.A)
         + m.parameters.bx[1] + m.parameters.ba[1])

model_forward(m, Xt) ==
    [m EXCEPT !.X = Append(@, Xt),
              !.derived_variables.A = Append(@, model_forward_ret(m, Xt))]

model_flush_gradients(m) ==
    [m EXCEPT !.gradients = [k \in DOMAIN @ |-> [i \in DOMAIN @[k] |-> 0]],
              !.X = <<>>,
              !.derived_variables.A = <<>>]

\* for t in range(n_t): y_pred = model.forward(X[:, :, t]) ; y_preds += [y_pred]
RECURSIVE model_forwards(_, _, _)
model_forwards(m, X, t) ==
    IF t > Len(X) THEN m ELSE model_forwards(model_forward(m, X[t]), X, t + 1)

\* loss_func: the sum of the predictions
loss_func(y_preds) == Sigma(Len(y_preds), LAMBDA t : y_preds[t])

\* the names grad_check_RNN is called with
ParamNames == {"Wax", "Waa", "Ba", "Bx", "X", "y"}

\* X[:, :, t] for t < n_t, one example
GradCheckX(n_in, n_t) == [t \in 1..n_t |-> [i \in 1..n_in |-> 1]]

Frame(at, param_name, found, param_orig, flat_ix, param, loss_plus, grads, X) ==
    [at |-> at, param_name |-> param_name, found |-> found,
     param_orig |-> param_orig, flat_ix |-> flat_ix, param |-> param,
     loss_plus |-> loss_plus, grads |-> grads, X |-> X]

InitGradCheck ==
    /\ \E n_in \in 1..2, Waa \in ParamVals, bx \in ParamVals, ba \in ParamVals :
         \E Wax \in [1..n_in -> ParamVals], n_t \in 1..2 :
            /\ layer = model_init(Wax, Waa, bx, ba)
            /\ last = Frame("called", "none", layer.parameters, <<>>, 0, <<>>, 0,
                            <<>>, GradCheckX(n_in, n_t))
    /\ wrappers = <<>>

\* lines 1149-1156: the name is normalised, "X" and "y" return None, the
\* parameter is read, the model flushed, grads zeroed
grad_check_RNN_enter(param_name) ==
    /\ last.at = "called"
    /\ LET name == IF param_name = "Ba" THEN "ba"
                   ELSE IF param_name = "Bx" THEN "bx" ELSE param_name
       IN IF name \in {"X", "y"}
          THEN /\ last' = [last EXCEPT !.at = "returned", !.param_name = name]
               /\ UNCHANGED layer
          ELSE /\ layer' = model_flush_gradients(layer)
               /\ last' = [last EXCEPT
                              !.at = "loop", !.param_name = name,
                              !.param_orig = layer.parameters[name],
                              !.grads = [i \in DOMAIN layer.parameters[name] |-> 0]]
    /\ UNCHANGED wrappers

\* lines 1158-1175: the next entry of param_orig.flat; a deep copy with that
\* entry raised by epsilon is put into the model, n_t forward steps are run,
\* the loss is taken and the model flushed; then the same copy has the entry
\* set to val - epsilon and is put into the model again
grad_check_RNN_plus ==
    /\ last.at = "loop" /\ last.flat_ix < Len(last.param_orig)
    /\ LET ix == last.flat_ix + 1
           val == last.param_orig[ix]
           plus == [last.param_orig EXCEPT ![ix] = val + epsilon]
           ran == model_forwards([layer EXCEPT !.parameters[last.param_name] = plus],
                                 last.X, 1)
           minus == [plus EXCEPT ![ix] = val - epsilon]
       IN /\ layer' = [model_flush_gradients(ran) EXCEPT
                          !.parameters[last.param_name] = minus]
          /\ last' = [last EXCEPT !.at = "minus", !.param = minus,
                                  !.loss_plus = loss_func(ran.derived_variables.A)]
    /\ UNCHANGED wrappers

\* lines 1176-1183: n_t forward steps with the lowered entry, the loss, the
\* flush, and the central difference stored in grads
grad_check_RNN_minus ==
    /\ last.at = "minus"
    /\ LET ix == last.flat_ix + 1
           ran == model_forwards(layer, last.X, 1)
           loss_minus == loss_func(ran.derived_variables.A)
       IN /\ layer' = model_flush_gradients(ran)
          /\ last' = [last EXCEPT
                         !.at = "loop", !.flat_ix = ix,
                         !.grads[ix] = py_int(last.loss_plus - loss_minus, 2 * epsilon)]
    /\ UNCHANGED wrappers

\* line 1184: return grads.T
grad_check_RNN_return ==
    /\ last.at = "loop" /\ last.flat_ix = Len(last.param_orig)
    /\ last' = [last EXCEPT !.at = "returned"]
    /\ UNCHANGED <<layer, wrappers>>

NextGradCheck ==
    \/ \E param_name \in ParamNames : grad_check_RNN_enter(param_name)
    \/ grad_check_RNN_plus
    \/ grad_check_RNN_minus
    \/ grad_check_RNN_return

SpecGradCheck == InitGradCheck /\ [][NextGradCheck]_vars

\* C28: once grad_check_RNN has returned, the model's parameters hold the
\* values they held when it was called, whatever the parameter's name and
\* number of entries.
C28_ParametersRestored ==
    last.at = "returned" => layer.parameters = last.found

\* ================================== layouts of the reference harness
\* What the reference modules of torch_models.py do to the layout of the
\* arrays they are given and hand back: the packing of the LSTM gate
\* weights into weight_ih / weight_hh and their unpacking in extract_grads,
\* and the np.moveaxis calls on inputs, kernels and sequences.  Matrices and
\* tensors are nested sequences; axes are counted from 0 as in the source
\* and indices from 1.

\* ------------------------------------------------------ numpy and torch
\* W[lo:hi, :]
np_rows(W, lo, hi) == [r \in 1..(hi - lo) |-> W[lo + r]]

\* np.vstack of four matrices
np_vstack(Ms) == Ms[1] \o Ms[2] \o Ms[3] \o Ms[4]

\* the g-th of w.chunk(4, 0)
torch_chunk(w, g) == np_rows(w, (g - 1) * (Len(w) \div 4), g * (Len(w) \div 4))

\* torch.cat([A, B], dim=0)
torch_cat(A, B) == A \o B

Tensor3(d, F(_, _, _)) ==
    [i \in 1..d[1] |-> [j \in 1..d[2] |-> [k \in 1..d[3] |-> F(i, j, k)]]]

\* the entry of X at the index tuple idx
RECURSIVE At(_, _)
At(X, idx) == IF idx = <<>> THEN X ELSE At(X[Head(idx)], Tail(idx))

\* an axis number of numpy, negative ones counted from the end, as a
\* position from 1
np_axis(ax, nd) == IF ax < 0 THEN ax + nd + 1 ELSE ax + 1

\* np.moveaxis: order[d] is the axis of the argument that becomes axis d of
\* the result, namely source[i] for the i with destination[i] = d
np_moveaxis_order(source, destination) ==
    LET nd == Len(source)
    IN [d \in 1..nd |->
           np_axis(source[CHOOSE i \in 1..nd : np_axis(destination[i], nd) = d], nd)]

\* the index in the argument of the entry at idx of the result
np_moveaxis_from(order, idx) ==
    [a \in DOMAIN order |-> idx[CHOOSE d \in DOMAIN order : order[d] = a]]

np_moveaxis4(X, source, destination) ==
    LET order == np_moveaxis_order(source, destination)
        d == shape(X, 4)
    IN Tensor4([k \in 1..4 |-> d[order[k]]],
               LAMBDA i, j, k, l : At(X, np_moveaxis_from(order, <<i, j, k, l>>)))

np_moveaxis3(X, source, destination) ==
    LET order == np_moveaxis_order(source, destination)
        d == shape(X, 3)
    IN Tensor3([k \in 1..3 |-> d[order[k]]],
               LAMBDA i, j, k : At(X, np_moveaxis_from(order, <<i, j, k>>)))

\* ------------------------------------------ the axis lists of the source
orig4 == <<0, 1, 2, 3>>
orig3 == <<0, 1, 2>>
\* forward: (N, H, W, C) -> (N, C, H, W)
X_to_torch == <<0, -2, -1, -3>>
X_swap == <<0, -1, -3, -2>>
\* __init__: (kh, kw, in, out) -> (out, in, kh, kw)
W_to_torch == <<-2, -1, -3, -4>>
\* faulty variant: the list of __init__ is used on the way back
W_swap_AsInit == <<-2, -1, -3, -4>>
W_swap == <<-1, -2, -4, -3>>
\* forward: (batch, input_size, seq_len) -> (seq_len, batch, input_size)
Seq_to_torch == <<-2, -1, -3>>
Seq_swap == <<-1, -3, -2>>

\* ------------------------------------------- TorchLSTMCell.__init__
\* the order in which the gates are stacked
GateOrder == <<"u", "f", "c", "o">>

\* W_ih = np.vstack([Wiu, Wif, Wic, Wio]), Wig = params[Wg][n_out:, :].T
TorchLSTMCell_W_ih(params, n_out) ==
    np_vstack([g \in 1..4 |->
        np_T(np_rows(params[WKey[GateOrder[g]]], n_out,
                     Len(params[WKey[GateOrder[g]]])))])

\* faulty variant: the hidden parts are stacked in the order u, f, o, c
TorchLSTMCell_W_hh_Reordered(params, n_out) ==
    np_vstack([g \in 1..4 |->
        np_T(np_rows(params[WKey[<<"u", "f", "o", "c">>[g]]], 0, n_out))])

\* W_hh = np.vstack([Whu, Whf, Whc, Who]), Whg = params[Wg][:n_out, :].T
TorchLSTMCell_W_hh(params, n_out) ==
    np_vstack([g \in 1..4 |-> np_T(np_rows(params[WKey[GateOrder[g]]], 0, n_out))])

\* ---------------------------------------- TorchLSTMCell.extract_grads
\* Wg = torch.cat([torch.t(w_hg), torch.t(w_ig)], dim=0), the chunks taken
\* in the order u, f, c, o
TorchLSTMCell_W(m, g) ==
    torch_cat(np_T(torch_chunk(m.weight_hh, g)), np_T(torch_chunk(m.weight_ih, g)))

\* dWg = torch.cat([torch.t(dw_hg), torch.t(dw_ig)], dim=0)
TorchLSTMCell_dW(m, g) ==
    torch_cat(np_T(torch_chunk(m.weight_hh_grad, g)),
              np_T(torch_chunk(m.weight_ih_grad, g)))

\* ------------------------------------------------ the arrays handed in
\* arrays whose entries name their own index, so that an entry that ends up
\* at another index is seen
Tagged2(rows, cols, tag) == Tensor2(<<rows, cols>>, LAMBDA r, c : tag + 10 * r + c)
Tagged3(d, tag) == Tensor3(d, LAMBDA i, j, k : tag + 100 * i + 10 * j + k)
Tagged4(d, tag) ==
    Tensor4(d, LAMBDA i, j, k, l : tag + 1000 * i + 100 * j + 10 * k + l)

\* the parameters of an LSTM cell: Wg of shape (n_in + n_out, n_out)
LSTMParams(n_in, n_out, tag) ==
    [k \in {WKey[g] : g \in Gates} |->
        Tagged2(n_in + n_out, n_out,
                tag + 100 * (CHOOSE g \in 1..4 : WKey[GateOrder[g]] = k))]

TagIn == {0, 5000}
OutIn == 1..2

HarnessCases ==
    {[cls |-> "TorchLSTMCell", n_out |-> n_out,
      params |-> LSTMParams(n_in, n_out, tag),
      grads |-> LSTMParams(n_in, n_out, tag + 1000)] :
        n_in \in 1..MaxIn, n_out \in OutIn, tag \in TagIn}
    \cup
    {[cls |-> "TorchBidirectionalLSTM", n_out |-> n_out,
      params |-> [components |->
                     [forward |-> LSTMParams(n_in, n_out, tag),
                      backward |-> LSTMParams(n_in, n_out, tag + 500)]],
      X |-> Tagged3(<<NEx, n_in, n_t>>, tag)] :
        n_in \in 1..MaxIn, n_out \in OutIn, tag \in TagIn, n_t \in 1..MaxT}
    \cup
    {[cls |-> "TorchConv2DLayer",
      X |-> Tagged4(<<NEx, rows, cols, ch>>, tag),
      W |-> Tagged4(<<f[1], f[2], ch, n_out>>, tag)] :
        rows \in 1..2, cols \in {1, MaxIn}, ch \in 1..2, n_out \in OutIn,
        f \in {<<1, 2>>, <<2, 1>>}, tag \in TagIn}
    \cup
    {[cls |-> "TorchBatchNormLayer",
      X |-> Tagged4(<<NEx, rows, cols, ch>>, tag)] :
        rows \in 1..2, cols \in {1, MaxIn}, ch \in 1..2, tag \in TagIn}

HarnessRec(c, at, golds) == [case |-> c, at |-> at, golds |-> golds]

InitHarness ==
    /\ layer = NoModule
    /\ wrappers = <<>>
    /\ \E c \in HarnessCases : last = HarnessRec(c, "numpy", <<>>)

\* TorchLSTMCell(n_in, n_out, params): the packed weights
TorchLSTMCell_pack ==
    /\ last.case.cls = "TorchLSTMCell" /\ last.at = "numpy"
    /\ layer' = [weight_ih |-> TorchLSTMCell_W_ih(last.case.params, last.case.n_out),
                 weight_hh |-> TorchLSTMCell_W_hh(last.case.params, last.case.n_out)]
    /\ last' = [last EXCEPT !.at = "torch"]
    /\ UNCHANGED wrappers

\* TorchLSTMCell.extract_grads: loss.backward() leaves in weight_ih.grad and
\* weight_hh.grad, entry by entry, the derivative with respect to the entry
\* of the layer's Wg that was packed there; then the chunks are unpacked
TorchLSTMCell_unpack ==
    /\ last.case.cls = "TorchLSTMCell" /\ last.at = "torch"
    /\ LET m == [weight_ih |-> layer.weight_ih, weight_hh |-> layer.weight_hh,
                 weight_ih_grad |->
                     TorchLSTMCell_W_ih(last.case.grads, last.case.n_out),
                 weight_hh_grad |->
                     TorchLSTMCell_W_hh(last.case.grads, last.case.n_out)]
       IN last' = [last EXCEPT
                      !.at = "extracted",
                      !.golds = [W |-> [g \in 1..4 |-> TorchLSTMCell_W(m, g)],
                                 dLdW |-> [g \in 1..4 |-> TorchLSTMCell_dW(m, g)]]]
    /\ UNCHANGED <<layer, wrappers>>

\* TorchBidirectionalLSTM(n_in, n_out, params) and forward(X): both
\* components are packed as in TorchLSTMCell, X goes to (seq, batch, input)
TorchBidirectionalLSTM_pack ==
    /\ last.case.cls = "TorchBidirectionalLSTM" /\ last.at = "numpy"
    /\ LET comp == last.case.params.components
           n_out == last.case.n_out
       IN layer' = [weight_ih_l0 |-> TorchLSTMCell_W_ih(comp.forward, n_out),
                    weight_hh_l0 |-> TorchLSTMCell_W_hh(comp.forward, n_out),
                    weight_ih_l0_reverse |-> TorchLSTMCell_W_ih(comp.backward, n_out),
                    weight_hh_l0_reverse |-> TorchLSTMCell_W_hh(comp.backward, n_out),
                    X |-> np_moveaxis3(last.case.X, orig3, Seq_to_torch)]
    /\ last' = [last EXCEPT !.at = "torch"]
    /\ UNCHANGED wrappers

\* TorchBidirectionalLSTM.extract_grads: the weights of both directions and X
TorchBidirectionalLSTM_unpack ==
    /\ last.case.cls = "TorchBidirectionalLSTM" /\ last.at = "torch"
    /\ LET f == [weight_ih |-> layer.weight_ih_l0, weight_hh |-> layer.weight_hh_l0]
           b == [weight_ih |-> layer.weight_ih_l0_reverse,
                 weight_hh |-> layer.weight_hh_l0_reverse]
       IN last' = [last EXCEPT
                      !.at = "extracted",
                      !.golds = [W_f |-> [g \in 1..4 |-> TorchLSTMCell_W(f, g)],
                                 W_b |-> [g \in 1..4 |-> TorchLSTMCell_W(b, g)],
                                 X |-> np_moveaxis3(layer.X, orig3, Seq_swap)]]
    /\ UNCHANGED <<layer, wrappers>>

\* TorchConv2DLayer.__init__ and forward: W and X in torch's layout
TorchConv2DLayer_to_torch ==
    /\ last.case.cls = "TorchConv2DLayer" /\ last.at = "numpy"
    /\ layer' = [weight |-> np_moveaxis4(last.case.W, orig4, W_to_torch),
                 X |-> np_moveaxis4(last.case.X, orig4, X_to_torch)]
    /\ last' = [last EXCEPT !.at = "torch"]
    /\ UNCHANGED wrappers

\* TorchConv2DLayer.extract_grads: the entries "X" and "W"
TorchConv2DLayer_from_torch ==
    /\ last.case.cls = "TorchConv2DLayer" /\ last.at = "torch"
    /\ last' = [last EXCEPT
                   !.at = "extracted",
                   !.golds = [X |-> np_moveaxis4(layer.X, orig4, X_swap),
                              W |-> np_moveaxis4(layer.weight, orig4, W_swap)]]
    /\ UNCHANGED <<layer, wrappers>>

\* TorchBatchNormLayer.forward on a 4-D input
TorchBatchNormLayer_to_torch ==
    /\ last.case.cls = "TorchBatchNormLayer" /\ last.at = "numpy"
    /\ layer' = [X |-> np_moveaxis4(last.case.X, orig4, X_to_torch)]
    /\ last' = [last EXCEPT !.at = "torch"]
    /\ UNCHANGED wrappers

\* TorchBatchNormLayer.extract_grads: X_np
TorchBatchNormLayer_from_torch ==
    /\ last.case.cls = "TorchBatchNormLayer" /\ last.at = "torch"
    /\ last' = [last EXCEPT
                   !.at = "extracted",
                   !.golds = [X |-> np_moveaxis4(layer.X, orig4, X_swap)]]
    /\ UNCHANGED <<layer, wrappers>>

NextHarness ==
    \/ TorchLSTMCell_pack
    \/ TorchLSTMCell_unpack
    \/ TorchBidirectionalLSTM_pack
    \/ TorchBidirectionalLSTM_unpack
    \/ TorchConv2DLayer_to_torch
    \/ TorchConv2DLayer_from_torch
    \/ TorchBatchNormLayer_to_torch
    \/ TorchBatchNormLayer_from_torch

SpecHarness == InitHarness /\ [][NextHarness]_vars

\* the packed matrices hold, for gate number g in the order u, f, c, o and
\* the layer's matrix Wg: row (g-1)*n_out + j of weight_hh is column j of
\* rows [0, n_out) of Wg, and the same row of weight_ih is column j of rows
\* [n_out, n_in + n_out)
Packed(w_ih, w_hh, params, n_out) ==
    LET n_in == Len(params.Wu) - n_out
    IN /\ Len(w_ih) = 4 * n_out /\ Len(w_hh) = 4 * n_out
       /\ \A g \in 1..4, j \in 1..n_out :
             /\ w_hh[(g - 1) * n_out + j]
                   = [i \in 1..n_out |-> params[WKey[GateOrder[g]]][i][j]]
             /\ w_ih[(g - 1) * n_out + j]
                   = [i \in 1..n_in |-> params[WKey[GateOrder[g]]][n_out + i][j]]

\* C29: the reference LSTM harness packs each gate matrix by rows [0, n_out)
\* (hidden to hidden) and rows [n_out, n_in + n_out) (input to hidden),
\* transposed and stacked in the order u, f, c, o; extract_grads returns the
\* four matrices it was given, and unpacks the gradients by the same split
\* and order.
C29_PackUnpack ==
    /\ (last.case.cls = "TorchLSTMCell" /\ last.at # "numpy")
          => Packed(layer.weight_ih, layer.weight_hh, last.case.params,
                    last.case.n_out)
    /\ (last.case.cls = "TorchLSTMCell" /\ last.at = "extracted")
          => \A g \in 1..4 :
                /\ last.golds.W[g] = last.case.params[WKey[GateOrder[g]]]
                /\ last.golds.dLdW[g] = last.case.grads[WKey[GateOrder[g]]]
    /\ (last.case.cls = "TorchBidirectionalLSTM" /\ last.at # "numpy")
          => /\ Packed(layer.weight_ih_l0, layer.weight_hh_l0,
                       last.case.params.components.forward, last.case.n_out)
             /\ Packed(layer.weight_ih_l0_reverse, layer.weight_hh_l0_reverse,
                       last.case.params.components.backward, last.case.n_out)
    /\ (last.case.cls = "TorchBidirectionalLSTM" /\ last.at = "extracted")
          => \A g \in 1..4 :
                /\ last.golds.W_f[g]
                      = last.case.params.components.forward[WKey[GateOrder[g]]]
                /\ last.golds.W_b[g]
                      = last.case.params.components.backward[WKey[GateOrder[g]]]

\* an LSTM cell with two inputs and two outputs, unpacked: Wc differs from
\* Wo, and its hidden rows from its input rows
C29_Witness ==
    /\ last.case.cls = "TorchLSTMCell" /\ last.at = "extracted"
    /\ last.case.n_out = 2
    /\ Len(last.case.params.Wu) = 4
    /\ last.golds.W[3] = last.case.params.Wc
    /\ last.golds.W[3] # last.golds.W[4]
    /\ last.golds.W[3][1] # last.golds.W[3][3]
    /\ last.golds.dLdW[3] = last.case.grads.Wc

\* C30: the layout conversions of the reference harness are inverse to each
\* other.  (N, H, W, C) goes to (N, C, H, W) and X_swap brings every entry
\* back to its index; (kh, kw, in, out) goes to (out, in, kh, kw) and W_swap
\* brings it back; (batch, features, time) goes to (time, batch, features)
\* and back.
C30_LayoutsInverse ==
    /\ (last.case.cls \in {"TorchConv2DLayer", "TorchBatchNormLayer"}
        /\ last.at # "numpy")
          => LET d == shape(last.case.X, 4)
             IN /\ shape(layer.X, 4) = <<d[1], d[4], d[2], d[3]>>
                /\ \A n \in 1..d[1], h \in 1..d[2], w \in 1..d[3], c \in 1..d[4] :
                      layer.X[n][c][h][w] = last.case.X[n][h][w][c]
                /\ layer.X = moveaxis_NHWC_to_NCHW(last.case.X)
    /\ (last.case.cls = "TorchConv2DLayer" /\ last.at # "numpy")
          => LET d == shape(last.case.W, 4)
             IN /\ shape(layer.weight, 4) = <<d[4], d[3], d[1], d[2]>>
                /\ \A a \in 1..d[1], b \in 1..d[2], i \in 1..d[3], o \in 1..d[4] :
                      layer.weight[o][i][a][b] = last.case.W[a][b][i][o]
                /\ layer.weight = moveaxis_W_to_torch(last.case.W)
    /\ (last.case.cls = "TorchBidirectionalLSTM" /\ last.at # "numpy")
          => LET d == shape(last.case.X, 3)
             IN /\ shape(layer.X, 3) = <<d[3], d[1], d[2]>>
                /\ \A e \in 1..d[1], i \in 1..d[2], t \in 1..d[3] :
                      layer.X[t][e][i] = last.case.X[e][i][t]
                /\ layer.X = moveaxis_to_seq(last.case.X)
    /\ (last.case.cls # "TorchLSTMCell" /\ last.at = "extracted")
          => last.golds.X = last.case.X
    /\ (last.case.cls = "TorchConv2DLayer" /\ last.at = "extracted")
          => /\ last.golds.W = last.case.W
             /\ last.golds.W = moveaxis_W_from_torch(layer.weight)
             /\ last.golds.X = moveaxis_NCHW_to_NHWC(layer.X)
    /\ (last.case.cls = "TorchBidirectionalLSTM" /\ last.at = "extracted")
          => last.golds.X = moveaxis_from_seq(layer.X)

\* a kernel of shape (1, 2, 2, out) with two output channels and an input
\* of four different extents, both brought back from torch's layout
C30_Witness ==
    /\ last.case.cls = "TorchConv2DLayer" /\ last.at = "extracted"
    /\ shape(last.case.W, 4) = <<1, 2, 2, 2>>
    /\ shape(layer.weight, 4) = <<2, 2, 1, 2>>
    /\ shape(last.case.X, 4) = <<NEx, 1, MaxIn, 2>>
    /\ last.golds.W = last.case.W
    /\ last.golds.X = last.case.X
    /\ layer.weight[2][1][1][2] = last.case.W[1][2][1][2]

====
